---- MODULE Spec2Model ----
(***************************************************************************)
(* A model of the OpenCut mobile editor core (apps/mobile/core/editor.ts)  *)
(* and of its storage service (apps/mobile/services/storage.ts).           *)
(*                                                                         *)
(* Times (startTime, duration, trimStart, trimEnd, splitTime) are JS       *)
(* numbers in the source; they are modelled as integers (exact             *)
(* arithmetic, e.g. milliseconds).  Identifiers are strings in the source *)
(* and integers here: an identifier produced by generateUUID is the value *)
(* of its counter component (> 0), the one component that decides whether *)
(* two generated strings are equal; 0 is the empty string or an absent    *)
(* id; a negative number is a string chosen by a caller.  A project       *)
(* carries its metadata (id, name, duration, dates), its scenes, its      *)
(* currentSceneId, its settings and its version.                          *)
(***************************************************************************)
EXTENDS Integers, Sequences, FiniteSets, TLC

\* ------------------------------------------------------------------ bounds

\* Most projects in the metadata index when its listing is examined.
MaxListed == 3

\* Most tracks a scene holds before addTrack is no longer taken.
MaxTracks == 2
\* Most elements a scene holds before insertElement is no longer taken.
MaxElements == 2
\* Most identifiers generateUUID hands out in one behaviour.
MaxIds == 3
\* Most identifiers generateUUID hands out in a behaviour of ProjectSpec.
MaxProjectIds == 6
\* Most ProjectManager calls awaiting storage at one time.
MaxPending == 1
\* The same where calls made while others are under way are followed.
MaxOverlap == 2
\* Most assets callers hand to addAsset in one behaviour.
MaxAssets == 1
\* Most calls of listeners one notify is followed for.
MaxCalls == 4
\* The latest time performance.now() gives.
MaxNow == 2
\* Most animation frames pending at once.
MaxFrames == 2

\* ----------------------------------------------------------- input domains

TrackTypes == {"video", "text", "audio", "sticker"}
ElementTypes == {"audio", "video", "image", "text", "sticker"}

\* An absent retainSide (undefined in the source).
None == "none"
\* The empty string, and an absent id.
NoId == 0
\* Identifiers a caller may pass itself (element.id of insertElement).
CallerIds == {-1}
\* A track id and an element id that no track and no element ever carries.
MissingTrack == -8
MissingElement == -9
\* A scene id and a project id that no scene and no project ever carries.
MissingScene == -7
MissingProject == -6
ProjectNames == {"p"}

\* startTime/duration/trimStart/trimEnd of the elements callers insert.
Timings == { [startTime |-> 1, duration |-> 2, trimStart |-> 2, trimEnd |-> 1] }
SplitTimes == {2, 3}
RetainSides == {None, "left", "right"}
\* The optional index argument of addTrack: <<>> when absent, <<i>> when given.
TrackIndexes == {<<>>, <<0>>}
ListenerIds == {"ui1", "ui2"}

\* ------------------------------------------------------------------- state

VARIABLES
  counter,         \* utils/id: let counter
  scenes,          \* ScenesManager.scenes
  currentSceneId,  \* ScenesManager.currentSceneId
  listeners,       \* EditorCore.listeners
  active,          \* ProjectManager.active: <<>> for null, else <<project>>
  savedProjects,   \* ProjectManager.savedProjects
  isLoading,       \* ProjectManager.isLoading
  isInitialized,   \* ProjectManager.isInitialized
  assets,          \* MediaManager.assets
  assetsAdded,     \* how many assets callers have handed to addAsset
  selected,        \* SelectionManager.selected
  storedItems,     \* AsyncStorage: project id -> the value under its project key
  storedIndex,     \* AsyncStorage: the value under the index key (<<>>: none)
  pending,         \* the ProjectManager calls suspended at an await, in call order
  currentTime,     \* PlaybackManager.currentTime, in milliseconds
  playing,         \* PlaybackManager.playing
  animationFrame,  \* PlaybackManager.animationFrame (0: null)
  lastTimestamp,   \* PlaybackManager.lastTimestamp
  playbackListeners, \* PlaybackManager.listeners, in insertion order
  frames,          \* the animation frames requested and neither run nor cancelled
  now,             \* the clock performance.now() and new Date() read
  last             \* what the most recent call was and what it did

\* What the ProjectManager, the MediaManager, the SelectionManager and the
\* storage hold.
projectVars == <<active, savedProjects, isLoading, isInitialized, assets, assetsAdded, selected,
                 storedItems, storedIndex, pending>>

\* What the PlaybackManager holds, with the frames it has requested and the
\* clock it reads.
playbackVars == <<currentTime, playing, animationFrame, lastTimestamp,
                  playbackListeners, frames, now>>

vars == <<counter, scenes, currentSceneId, listeners, last, projectVars, playbackVars>>

\* --------------------------------------------------------------- sequences

Min(a, b) == IF a < b THEN a ELSE b
Max(a, b) == IF a > b THEN a ELSE b

\* Array.prototype.find / findIndex: the first position satisfying the test,
\* 0 when there is none.
FirstIndex(s, Test(_)) ==
  IF \E i \in 1..Len(s) : Test(s[i])
  THEN CHOOSE i \in 1..Len(s) : Test(s[i]) /\ \A j \in 1..(i - 1) : ~Test(s[j])
  ELSE 0

\* Array.prototype.splice(index, deleteCount, ...items), index counted from 0.
Splice(s, index, deleteCount, items) ==
  LET start == IF index < 0 THEN Max(Len(s) + index, 0) ELSE Min(index, Len(s))
      del == Min(Max(deleteCount, 0), Len(s) - start)
  IN SubSeq(s, 1, start) \o items \o SubSeq(s, start + del + 1, Len(s))

\* Array.prototype.filter
Filter(s, Test(_)) == SelectSeq(s, Test)

\* ------------------------------------------------------------ generateUUID

\* counter += 1; the returned string ends in the new counter value.
GenerateUUID(c) == [id |-> c + 1, counter |-> c + 1]

\* ---------------------------------------------------------- EditorCore.notify

\* One call of EditorCore.notify: every subscribed listener is invoked once and
\* observes the tracks as they are at that moment.
CoreNotify(ls, seen) == [l \in ls |-> seen]

\* ------------------------------------------------------------ TimelineManager

\* scene.tracks.find giving the first track when none has the id.
FindTrack_OrFirst(tracks, trackId) ==
  IF \E i \in 1..Len(tracks) : tracks[i].id = trackId
  THEN FirstIndex(tracks, LAMBDA t : t.id = trackId)
  ELSE Min(1, Len(tracks))

\* scene.tracks.find((t) => t.id === trackId)
FindTrack(tracks, trackId) == FirstIndex(tracks, LAMBDA t : t.id = trackId)
FindElement(elements, elementId) == FirstIndex(elements, LAMBDA e : e.id = elementId)

\* The track object addTrack builds; `${type} ${n}` is kept as the pair <<type, n>>.
NewTrack(id, type, n) ==
  CASE type = "video" ->
         [id |-> id, name |-> <<type, n>>, type |-> type, elements |-> <<>>,
          isMain |-> FALSE, muted |-> FALSE, hidden |-> FALSE]
    [] type = "audio" ->
         [id |-> id, name |-> <<type, n>>, type |-> type, elements |-> <<>>,
          muted |-> FALSE]
    [] type \in {"text", "sticker"} ->
         [id |-> id, name |-> <<type, n>>, type |-> type, elements |-> <<>>,
          hidden |-> FALSE]
    [] OTHER ->
         [id |-> id, name |-> <<type, n>>, type |-> type, elements |-> <<>>]

\* The inner loop with max overwritten by every end time.
RECURSIVE MaxEndOfElements_Last(_, _)
MaxEndOfElements_Last(elements, max) ==
  IF elements = <<>> THEN max
  ELSE MaxEndOfElements_Last(Tail(elements),
                             Head(elements).startTime + Head(elements).duration)

\* The loops of getTotalDuration (and of getProjectDurationFromScenes): the
\* running maximum starts at 0 and is raised by every larger end time.
RECURSIVE MaxEndOfElements(_, _)
MaxEndOfElements(elements, max) ==
  IF elements = <<>> THEN max
  ELSE LET end == Head(elements).startTime + Head(elements).duration
       IN MaxEndOfElements(Tail(elements), IF end > max THEN end ELSE max)

RECURSIVE MaxEndOfTracks(_, _)
MaxEndOfTracks(tracks, max) ==
  IF tracks = <<>> THEN max
  ELSE MaxEndOfTracks(Tail(tracks), MaxEndOfElements(Head(tracks).elements, max))

\* TimelineManager.addTrack on the active scene's track list.
addTrack(tracks, c, ls, type, index) ==
  LET g == GenerateUUID(c)
      track == NewTrack(g.id, type, Len(tracks) + 1)
      after == IF index # <<>> THEN Splice(tracks, index[1], 0, <<track>>)
               ELSE Append(tracks, track)
  IN [tracks |-> after, counter |-> g.counter,
      log |-> <<CoreNotify(ls, after)>>, ret |-> track.id, did |-> "added"]

\* The test with an image element matching no video track.
MatchesElement_ImageApart(track, elementType) ==
  IF elementType = "video" THEN track.type = "video"
  ELSE IF elementType = "audio" THEN track.type = "audio"
  ELSE IF elementType = "text" THEN track.type = "text"
  ELSE IF elementType = "sticker" THEN track.type = "sticker"
  ELSE FALSE

\* The test of scene.tracks.find in insertElement's auto placement.
MatchesElement(track, elementType) ==
  IF elementType \in {"video", "image"} THEN track.type = "video"
  ELSE IF elementType = "audio" THEN track.type = "audio"
  ELSE IF elementType = "text" THEN track.type = "text"
  ELSE IF elementType = "sticker" THEN track.type = "sticker"
  ELSE FALSE

\* track.elements.push(element) on the track at position ti.
PushElement(tracks, ti, element) ==
  [tracks EXCEPT ![ti].elements = Append(@, element)]

\* TimelineManager.insertElement; element.id = NoId stands for an absent id.
insertElement(tracks, c, ls, element, placement) ==
  LET g == IF element.id = NoId THEN GenerateUUID(c) ELSE [id |-> element.id, counter |-> c]
      elementWithId == [element EXCEPT !.id = g.id]
  IN IF placement.mode = "explicit"
     THEN LET ti == FindTrack(tracks, placement.trackId)
              after == IF ti # 0 THEN PushElement(tracks, ti, elementWithId) ELSE tracks
          IN [tracks |-> after, counter |-> g.counter, log |-> <<CoreNotify(ls, after)>>,
              did |-> IF ti # 0 THEN "explicit" ELSE "no-track"]
     ELSE LET mi == FirstIndex(tracks, LAMBDA t : MatchesElement(t, elementWithId.type))
          IN IF mi # 0
             THEN LET after == PushElement(tracks, mi, elementWithId)
                  IN [tracks |-> after, counter |-> g.counter,
                      log |-> <<CoreNotify(ls, after)>>, did |-> "auto-match"]
             ELSE LET trackType == IF elementWithId.type \in {"video", "image"}
                                   THEN "video" ELSE elementWithId.type
                      added == addTrack(tracks, g.counter, ls, trackType, <<>>)
                      ni == FindTrack(added.tracks, added.ret)
                      after == IF ni # 0 THEN PushElement(added.tracks, ni, elementWithId)
                               ELSE added.tracks
                  IN [tracks |-> after, counter |-> added.counter,
                      log |-> added.log \o <<CoreNotify(ls, after)>>,
                      did |-> "auto-new-track"]

\* The loop with the first element of the named track removed, whatever its id.
RECURSIVE DeleteLoop_DropsFirst(_, _)
DeleteLoop_DropsFirst(tracks, refs) ==
  IF refs = <<>> THEN tracks
  ELSE LET ref == Head(refs)
           ti == FindTrack(tracks, ref.trackId)
       IN IF ti = 0 THEN DeleteLoop_DropsFirst(tracks, Tail(refs))
          ELSE DeleteLoop_DropsFirst(
                 [tracks EXCEPT ![ti].elements = IF @ = <<>> THEN @ ELSE Tail(@)],
                 Tail(refs))

\* The loop of deleteElements.
RECURSIVE DeleteLoop(_, _)
DeleteLoop(tracks, refs) ==
  IF refs = <<>> THEN tracks
  ELSE LET ref == Head(refs)
           ti == FindTrack(tracks, ref.trackId)
       IN IF ti = 0 THEN DeleteLoop(tracks, Tail(refs))
          ELSE DeleteLoop(
                 [tracks EXCEPT ![ti].elements = Filter(@, LAMBDA el : el.id # ref.elementId)],
                 Tail(refs))

\* TimelineManager.deleteElements
deleteElements(tracks, c, ls, refs) ==
  LET after == DeleteLoop(tracks, refs)
  IN [tracks |-> after, counter |-> c, log |-> <<CoreNotify(ls, after)>>,
      did |-> IF after = tracks THEN "nothing" ELSE "removed"]

\* SplitOne with the right part keeping the id of the element it is cut from.
SplitOne_RightKeepsId(elements, ei, c, splitTime, retainSide) ==
  LET el == elements[ei]
      endTime == el.startTime + el.duration
      leftDuration == splitTime - el.startTime
      rightDuration == endTime - splitTime
      rightEl == [el EXCEPT !.startTime = splitTime,
                            !.duration = rightDuration,
                            !.trimStart = el.trimStart + leftDuration]
  IN IF retainSide = "left"
     THEN [elements |-> [elements EXCEPT ![ei] = [el EXCEPT !.duration = leftDuration]],
           counter |-> c]
     ELSE IF retainSide = "right"
     THEN [elements |-> [elements EXCEPT ![ei] = rightEl], counter |-> c]
     ELSE [elements |-> Splice(elements, ei - 1, 1,
                               <<[el EXCEPT !.duration = leftDuration], rightEl>>),
           counter |-> c]

\* SplitOne with trimStart left as it was in the part that starts at splitTime.
SplitOne_TrimNotAdvanced(elements, ei, c, splitTime, retainSide) ==
  LET el == elements[ei]
      endTime == el.startTime + el.duration
      leftDuration == splitTime - el.startTime
      rightDuration == endTime - splitTime
      rightEl == [el EXCEPT !.startTime = splitTime, !.duration = rightDuration]
  IN IF retainSide = "left"
     THEN [elements |-> [elements EXCEPT ![ei] = [el EXCEPT !.duration = leftDuration]],
           counter |-> c]
     ELSE IF retainSide = "right"
     THEN [elements |-> [elements EXCEPT ![ei] = rightEl], counter |-> c]
     ELSE LET g == GenerateUUID(c)
          IN [elements |-> Splice(elements, ei - 1, 1,
                                  <<[el EXCEPT !.duration = leftDuration],
                                    [rightEl EXCEPT !.id = g.id]>>),
              counter |-> g.counter]

\* What splitElements puts in place of el = elements[ei] when splitTime is
\* strictly inside el: the new element list and the new counter.
SplitOne(elements, ei, c, splitTime, retainSide) ==
  LET el == elements[ei]
      endTime == el.startTime + el.duration
      leftDuration == splitTime - el.startTime
      rightDuration == endTime - splitTime
  IN IF retainSide = "left"
     THEN [elements |-> [elements EXCEPT ![ei] = [el EXCEPT !.duration = leftDuration]],
           counter |-> c]
     ELSE IF retainSide = "right"
     THEN [elements |-> [elements EXCEPT ![ei] =
                           [el EXCEPT !.startTime = splitTime,
                                      !.duration = rightDuration,
                                      !.trimStart = el.trimStart + leftDuration]],
           counter |-> c]
     ELSE LET g == GenerateUUID(c)
              leftEl == [el EXCEPT !.duration = leftDuration]
              rightEl == [el EXCEPT !.id = g.id,
                                    !.startTime = splitTime,
                                    !.duration = rightDuration,
                                    !.trimStart = el.trimStart + leftDuration]
          IN [elements |-> Splice(elements, ei - 1, 1, <<leftEl, rightEl>>),
              counter |-> g.counter]

\* SplitIsOutside with the comparisons made strict: a split time on the
\* element's boundary is let through.
SplitIsOutside_Strict(el, splitTime) ==
  LET endTime == el.startTime + el.duration
  IN splitTime < el.startTime \/ splitTime > endTime

\* The test with a splitTime at the end of the element let through.
SplitIsOutside_EndLetThrough(el, splitTime) ==
  LET endTime == el.startTime + el.duration
  IN splitTime <= el.startTime \/ splitTime > endTime

\* The test that makes splitElements skip an element: splitTime is not strictly
\* inside (startTime, startTime + duration).
SplitIsOutside(el, splitTime) ==
  LET endTime == el.startTime + el.duration
  IN splitTime <= el.startTime \/ splitTime >= endTime

\* The loop of splitElements.  did collects, per reference, which branch the
\* iteration took ("no-track", "no-element", "outside" or "split").
RECURSIVE SplitLoop(_, _, _, _, _, _)
SplitLoop(tracks, c, refs, splitTime, retainSide, did) ==
  IF refs = <<>> THEN [tracks |-> tracks, counter |-> c, did |-> did]
  ELSE LET ref == Head(refs)
           ti == FindTrack(tracks, ref.trackId)
       IN IF ti = 0
          THEN SplitLoop(tracks, c, Tail(refs), splitTime, retainSide,
                         did \cup {"no-track"})
          ELSE LET ei == FindElement(tracks[ti].elements, ref.elementId)
               IN IF ei = 0
                  THEN SplitLoop(tracks, c, Tail(refs), splitTime, retainSide,
                                 did \cup {"no-element"})
                  ELSE IF SplitIsOutside(tracks[ti].elements[ei], splitTime)
                  THEN SplitLoop(tracks, c, Tail(refs), splitTime, retainSide,
                                 did \cup {"outside"})
                  ELSE LET one == SplitOne(tracks[ti].elements, ei, c,
                                           splitTime, retainSide)
                       IN SplitLoop([tracks EXCEPT ![ti].elements = one.elements],
                                    one.counter, Tail(refs), splitTime, retainSide,
                                    did \cup {"split"})

\* TimelineManager.splitElements
splitElements(tracks, c, ls, refs, splitTime, retainSide) ==
  LET r == SplitLoop(tracks, c, refs, splitTime, retainSide, {})
  IN [tracks |-> r.tracks, counter |-> r.counter,
      log |-> <<CoreNotify(ls, r.tracks)>>,
      did |-> IF "split" \in r.did THEN "split"
              ELSE IF "outside" \in r.did THEN "outside"
              ELSE "missing"]


\* -------------------------------------------------------------- ScenesManager

\* ScenesManager.getActiveScene, as a position in scenes (0: null).
GetActiveScene(ss, id) == FirstIndex(ss, LAMBDA sc : sc.id = id)

\* ScenesManager.initializeScenes: currentSceneId || scenes[0]?.id || "".
InitialSceneId(ss, id) ==
  IF id # NoId THEN id
  ELSE IF Len(ss) > 0 /\ ss[1].id # NoId THEN ss[1].id
  ELSE NoId

\* TimelineManager.getTracks
GetTracks == LET ai == GetActiveScene(scenes, currentSceneId)
             IN IF ai = 0 THEN <<>> ELSE scenes[ai].tracks

\* TimelineManager.getTotalDuration
GetTotalDuration == MaxEndOfTracks(GetTracks, 0)

\* ------------------------------------------------------- inputs of the calls

\* A scene with no tracks, as a caller of initializeScenes may pass it.
EmptyScene(id) ==
  [id |-> id, name |-> "Scene", isMain |-> TRUE, tracks |-> <<>>, bookmarks |-> <<>>]

\* The elements of the given types that callers pass to insertElement, with
\* and without an id of their own.
ElementInputs(types) ==
  { [id |-> i, name |-> "clip", type |-> ty, startTime |-> tm.startTime,
     duration |-> tm.duration, trimStart |-> tm.trimStart, trimEnd |-> tm.trimEnd] :
      i \in {NoId} \cup CallerIds, ty \in types, tm \in Timings }

\* The track and element types the calls of Spec use.
EditedTrackTypes == {"video", "audio"}
EditedElementTypes == {"video", "audio"}

TrackIdsOf(tracks) == { tracks[i].id : i \in 1..Len(tracks) }

PlacementInputs(tracks) ==
  {[mode |-> "auto"]} \cup
  { [mode |-> "explicit", trackId |-> t] : t \in TrackIdsOf(tracks) \cup {MissingTrack} }

\* The (trackId, elementId) pairs of the elements present.
PresentRefs(tracks) ==
  { [trackId |-> tracks[p[1]].id, elementId |-> tracks[p[1]].elements[p[2]].id] :
      p \in { q \in (1..Len(tracks)) \X (1..MaxElements + 2) :
                q[2] <= Len(tracks[q[1]].elements) } }

\* A pair naming a missing track, and pairs naming a missing element of a track.
AbsentRefs(tracks) ==
  {[trackId |-> MissingTrack, elementId |-> MissingElement]} \cup
  { [trackId |-> tracks[i].id, elementId |-> MissingElement] : i \in 1..Min(1, Len(tracks)) }

\* The reference lists of deleteElements and splitElements: one reference, two
\* references to present elements (the same one twice included), or an absent
\* one followed by a present one.
RefInputs(tracks) ==
  { <<r>> : r \in PresentRefs(tracks) \cup AbsentRefs(tracks) } \cup
  { <<r1, r2>> : r1 \in PresentRefs(tracks), r2 \in PresentRefs(tracks) } \cup
  { <<[trackId |-> MissingTrack, elementId |-> MissingElement], r>> :
      r \in PresentRefs(tracks) }

CountElements(tracks) ==
  LET lens == [i \in 1..Len(tracks) |-> Len(tracks[i].elements)]
      RECURSIVE Sum(_)
      Sum(k) == IF k = 0 THEN 0 ELSE lens[k] + Sum(k - 1)
  IN Sum(Len(tracks))

\* ------------------------------------------------------------------ actions

\* The record of the most recent call: the method, the branch it took, the
\* retainSide of a splitElements call that split something, and, for a step
\* that settles a suspended ProjectManager call, that call.
Called(op, did, mode) == [op |-> op, did |-> did, mode |-> mode, call |-> <<>>]

Init ==
  /\ counter = 0
  /\ scenes = <<>>
  /\ currentSceneId = NoId
  /\ listeners = ListenerIds
  /\ active = <<>>
  /\ savedProjects = <<>>
  /\ isLoading = TRUE
  /\ isInitialized = FALSE
  /\ assets = <<>>
  /\ assetsAdded = 0
  /\ selected = <<>>
  /\ storedItems = <<>>
  /\ storedIndex = <<>>
  /\ pending = <<>>
  /\ currentTime = 0
  /\ playing = FALSE
  /\ animationFrame = 0
  /\ lastTimestamp = 0
  /\ playbackListeners = <<>>
  /\ frames = {}
  /\ now = 0
  /\ last = Called("new", "", "")

\* ScenesManager.initializeScenes
InitializeScenes(ss, id) ==
  /\ scenes' = ss
  /\ currentSceneId' = InitialSceneId(ss, id)
  /\ last' = Called("initializeScenes", "", "")
  /\ UNCHANGED <<counter, listeners, playbackVars, projectVars>>

\* ScenesManager.setActiveScene
SetActiveScene(id) ==
  /\ currentSceneId' = id
  /\ last' = Called("setActiveScene", "", "")
  /\ UNCHANGED <<counter, scenes, listeners, playbackVars, projectVars>>

\* ScenesManager.clearScenes
ClearScenes ==
  /\ scenes' = <<>>
  /\ currentSceneId' = NoId
  /\ last' = Called("clearScenes", "", "")
  /\ UNCHANGED <<counter, listeners, playbackVars, projectVars>>

\* A TimelineManager call made without an active scene, with an id generated
\* and returned all the same.
NoScene_IdGenerated(c) ==
  [counter |-> c + 1, log |-> <<>>, ret |-> c + 1, did |-> "no-scene"]

\* A TimelineManager call made without an active scene: `if (!scene) return`,
\* which is `return ""` in addTrack, before anything else is done.
NoScene(c) == [counter |-> c, log |-> <<>>, ret |-> NoId, did |-> "no-scene"]

\* The outcome of a TimelineManager call whose outcome on an active scene is r.
OnActiveScene(r) ==
  IF GetActiveScene(scenes, currentSceneId) = 0 THEN NoScene(counter) ELSE r

\* A TimelineManager call: without an active scene it returns at once; otherwise
\* its outcome r replaces the active scene's tracks and the id counter.
TimelineCall(op, mode, r) ==
  LET ai == GetActiveScene(scenes, currentSceneId)
  IN IF ai = 0
     THEN /\ counter' = NoScene(counter).counter
          /\ last' = Called(op, NoScene(counter).did, "")
          /\ UNCHANGED scenes
     ELSE /\ r.counter <= MaxIds
          /\ Len(r.tracks) <= MaxTracks
          /\ CountElements(r.tracks) <= MaxElements
          /\ scenes' = [scenes EXCEPT ![ai].tracks = r.tracks]
          /\ counter' = r.counter
          /\ last' = Called(op, r.did, IF r.did = "split" THEN mode ELSE "")

AddTrack(type, index) ==
  /\ TimelineCall("addTrack", "", addTrack(GetTracks, counter, listeners, type, index))
  /\ UNCHANGED <<currentSceneId, listeners, playbackVars, projectVars>>

InsertElement(element, placement) ==
  /\ TimelineCall("insertElement", "",
                  insertElement(GetTracks, counter, listeners, element, placement))
  /\ UNCHANGED <<currentSceneId, listeners, playbackVars, projectVars>>

DeleteElements(refs) ==
  /\ TimelineCall("deleteElements", "",
                  deleteElements(GetTracks, counter, listeners, refs))
  /\ UNCHANGED <<currentSceneId, listeners, playbackVars, projectVars>>

SplitElements(refs, splitTime, retainSide) ==
  /\ TimelineCall("splitElements", retainSide,
                  splitElements(GetTracks, counter, listeners, refs, splitTime, retainSide))
  /\ UNCHANGED <<currentSceneId, listeners, playbackVars, projectVars>>

SceneInputs == { <<EmptyScene(-2)>> }
SceneIdInputs == {NoId, -2}

Next ==
  \/ \E ss \in SceneInputs, id \in SceneIdInputs : InitializeScenes(ss, id)
  \/ ClearScenes
  \/ \E type \in EditedTrackTypes, index \in TrackIndexes : AddTrack(type, index)
  \/ \E element \in ElementInputs(EditedElementTypes),
        placement \in PlacementInputs(GetTracks) :
       InsertElement(element, placement)
  \/ \E refs \in RefInputs(GetTracks) : DeleteElements(refs)
  \/ \E refs \in RefInputs(GetTracks), splitTime \in SplitTimes, retainSide \in RetainSides :
       SplitElements(refs, splitTime, retainSide)

Spec == Init /\ [][Next]_vars

\* ------------------------------------------------------------ StorageService

\* A Date is kept by its instant, the text toISOString gives for it by the
\* instant it spells: the two are values of different kinds.  new Date() reads
\* the clock.
ToISOString(date) == [iso |-> date.time]
NewDate(text) == [time |-> text.iso]
DateNow == [time |-> now]

\* serializeProject: the JSON text is kept as the value it encodes, taken when
\* the call is made, the dates of the metadata and of each scene as the texts
\* toISOString gives.
SerializeProject(project) ==
  [metadata |-> [project.metadata EXCEPT !.createdAt = ToISOString(@),
                                         !.updatedAt = ToISOString(@)],
   scenes |-> [i \in 1..Len(project.scenes) |->
                 [project.scenes[i] EXCEPT !.createdAt = ToISOString(@),
                                           !.updatedAt = ToISOString(@)]],
   currentSceneId |-> project.currentSceneId,
   settings |-> project.settings,
   version |-> project.version]

\* One scene of deserializeProject: its dates are parsed, and without bookmarks
\* it gets the empty list.
DeserializeScene(scene) ==
  [id |-> scene.id, name |-> scene.name, isMain |-> scene.isMain,
   tracks |-> scene.tracks,
   bookmarks |-> IF "bookmarks" \in DOMAIN scene THEN scene.bookmarks ELSE <<>>,
   createdAt |-> NewDate(scene.createdAt),
   updatedAt |-> NewDate(scene.updatedAt)]

\* deserializeProject with the dates of the metadata left as the texts they
\* are stored as.
DeserializeProject_DatesAsText(json) ==
  LET data == IF "scenes" \in DOMAIN json THEN json.scenes ELSE <<>>
  IN [metadata |-> json.metadata,
      scenes |-> [i \in 1..Len(data) |-> DeserializeScene(data[i])],
      currentSceneId |-> json.currentSceneId,
      settings |-> json.settings,
      version |-> json.version]

\* deserializeProject: the dates of the metadata are parsed, and without scenes
\* the project gets the empty list.
DeserializeProject(json) ==
  LET data == IF "scenes" \in DOMAIN json THEN json.scenes ELSE <<>>
  IN [metadata |-> [json.metadata EXCEPT !.createdAt = NewDate(@),
                                         !.updatedAt = NewDate(@)],
      scenes |-> [i \in 1..Len(data) |-> DeserializeScene(data[i])],
      currentSceneId |-> json.currentSceneId,
      settings |-> json.settings,
      version |-> json.version]

\* AsyncStorage.setItem, removeItem and getItem on the project keys; getItem
\* gives <<>> for null.
SetItem(items, key, value) ==
  [k \in DOMAIN items \cup {key} |-> IF k = key THEN value ELSE items[k]]
RemoveItem(items, key) == [k \in DOMAIN items \ {key} |-> items[k]]
GetItem(items, key) == IF key \in DOMAIN items THEN <<items[key]>> ELSE <<>>

\* Array.prototype.includes
Includes(ids, id) == \E i \in 1..Len(ids) : ids[i] = id

\* ------------------------------------------------------------ ProjectManager

\* constants/project
DEFAULT_FPS == 30
DEFAULT_CANVAS_SIZE == [width |-> 1080, height |-> 1920]
DEFAULT_COLOR == "#000000"
CURRENT_PROJECT_VERSION == 1

\* buildDefaultScene: the scene's id is generated first, then its track's.
BuildDefaultScene(c, name, isMain) ==
  LET gs == GenerateUUID(c)
      gt == GenerateUUID(gs.counter)
  IN [scene |-> [id |-> gs.id, name |-> name, isMain |-> isMain,
                 tracks |-> <<[id |-> gt.id, name |-> <<"Video", 1>>, type |-> "video",
                               elements |-> <<>>, isMain |-> TRUE,
                               muted |-> FALSE, hidden |-> FALSE]>>,
                 bookmarks |-> <<>>,
                 createdAt |-> DateNow, updatedAt |-> DateNow],
      counter |-> gt.counter]

\* getProjectDurationFromScenes
RECURSIVE MaxEndOfScenes(_, _)
MaxEndOfScenes(ss, max) ==
  IF ss = <<>> THEN max
  ELSE MaxEndOfScenes(Tail(ss), MaxEndOfTracks(Head(ss).tracks, max))

GetProjectDurationFromScenes(ss) == MaxEndOfScenes(ss, 0)

\* updateMetadata with a new entry pushed to the end of the list.
updateMetadata_Pushed(saved, metadata) ==
  LET idx == FirstIndex(saved, LAMBDA m : m.id = metadata.id)
  IN IF idx # 0 THEN [saved EXCEPT ![idx] = metadata] ELSE Append(saved, metadata)

\* ProjectManager.updateMetadata on the savedProjects list.
updateMetadata(saved, metadata) ==
  LET idx == FirstIndex(saved, LAMBDA m : m.id = metadata.id)
  IN IF idx # 0 THEN [saved EXCEPT ![idx] = metadata] ELSE <<metadata>> \o saved

\* What was there when a ProjectManager call was made: the id of the active
\* project (NoId: none), the ids of its scenes, and the ids of the assets held.
Before ==
  [project |-> IF active = <<>> THEN NoId ELSE active[1].metadata.id,
   scenes |-> IF active = <<>> THEN {}
              ELSE { active[1].scenes[i].id : i \in 1..Len(active[1].scenes) },
   assets |-> { assets[i].id : i \in 1..Len(assets) }]

\* A ProjectManager call suspended at an await: the method, the storage call
\* it waits for (pc), the project id that call is about, the project the method
\* goes on with (project) and its serialization (json), the index read by
\* getIndex (ids), the ids argument of deleteProjects (all) and the part of it
\* still to delete (rest), the name argument of renameProject (name), the
\* metadata loadAllProjectsMetadata has pushed so far (metadata), and what was
\* there when the call was made (before).
Suspended(op, pc, id, project, json, all, rest) ==
  [op |-> op, pc |-> pc, id |-> id, project |-> project, json |-> json,
   ids |-> <<>>, all |-> all, rest |-> rest, name |-> "", metadata |-> <<>>,
   before |-> Before]

RemoveAt(s, k) == SubSeq(s, 1, k - 1) \o SubSeq(s, k + 1, Len(s))

\* Whether the step now taken for the suspended call k follows directly on the
\* previous step of the same call, nothing else having run since the call was
\* made: "create" for a createNewProject call, "after-create" for a loadProject
\* call that was itself made right after such a createNewProject call
\* returned, with the id it returned.
Uninterrupted(k) ==
  IF /\ pending[k].op = "createNewProject"
     /\ active # <<>> /\ active[1].metadata.id = pending[k].id
     /\ \/ last.op = "createNewProject" /\ last.did = "activated"
        \/ last.op = "storage" /\ last.mode = "create"
  THEN "create"
  ELSE IF /\ pending[k].op = "loadProject"
          /\ k = Len(pending)
          /\ last.op = "loadProject" /\ last.did = "fetching"
          /\ last.mode = "after-create"
  THEN "after-create"
  ELSE ""

\* Whether a loadProject call for id made now directly follows the return of
\* an uninterrupted createNewProject call that returned id.
AfterCreate(id) ==
  IF /\ last.op = "createNewProject" /\ last.did = "resolved" /\ last.mode = "create"
     /\ last.call[1].id = id
  THEN "after-create"
  ELSE ""

\* The step that settles the suspended call k, recorded in last.
Settled(k, did) ==
  [Called(pending[k].op, did, Uninterrupted(k)) EXCEPT !.call = <<pending[k]>>]

\* ProjectManager.createNewProject up to its await of saveProject, whose
\* setItem is issued with the serialization of the new project.  Here and
\* below, most is the number of calls that can be under way at once.
CreateNewProjectUnder(most, name) ==
  LET built == BuildDefaultScene(counter, "Main scene", TRUE)
      gp == GenerateUUID(built.counter)
      newProject == [metadata |-> [id |-> gp.id, name |-> name, duration |-> 0,
                                   createdAt |-> DateNow, updatedAt |-> DateNow],
                     scenes |-> <<built.scene>>,
                     currentSceneId |-> built.scene.id,
                     settings |-> [fps |-> DEFAULT_FPS,
                                   canvasSize |-> DEFAULT_CANVAS_SIZE,
                                   originalCanvasSize |-> <<>>,
                                   background |-> [type |-> "color",
                                                   color |-> DEFAULT_COLOR]],
                     version |-> CURRENT_PROJECT_VERSION]
  IN /\ gp.counter <= MaxProjectIds
     /\ Len(pending) < most
     /\ counter' = gp.counter
     /\ active' = <<newProject>>
     /\ assets' = <<>>
     /\ scenes' = newProject.scenes
     /\ currentSceneId' = InitialSceneId(newProject.scenes, newProject.currentSceneId)
     /\ pending' = Append(pending,
                          Suspended("createNewProject", "setItem", gp.id, <<newProject>>,
                                    <<SerializeProject(newProject)>>, <<>>, <<>>))
     /\ last' = Called("createNewProject", "activated", "")
     /\ UNCHANGED <<listeners, playbackVars, savedProjects, isLoading, isInitialized, assetsAdded, selected,
                    storedItems, storedIndex>>

\* The same call made while fewer than MaxPending calls are under way.
CreateNewProject(name) == CreateNewProjectUnder(MaxPending, name)

\* ProjectManager.loadProject up to its await of storageService.loadProject.
LoadProjectUnder(most, id) ==
  /\ Len(pending) < most
  /\ isLoading' = TRUE
  /\ assets' = <<>>
  /\ scenes' = <<>>
  /\ currentSceneId' = NoId
  /\ pending' = Append(pending,
                       Suspended("loadProject", "getItem", id, <<>>, <<>>, <<>>, <<>>))
  /\ last' = Called("loadProject", "fetching", AfterCreate(id))
  /\ UNCHANGED <<counter, listeners, playbackVars, active, savedProjects, isInitialized, assetsAdded, selected,
                 storedItems, storedIndex>>

\* The same call made while fewer than MaxPending calls are under way.
LoadProject(id) == LoadProjectUnder(MaxPending, id)

\* ProjectManager.saveCurrentProject up to its await of saveProject.
SaveCurrentProjectUnder(most) ==
  IF active = <<>>
  THEN /\ last' = Called("saveCurrentProject", "no-project", "")
       /\ UNCHANGED <<counter, scenes, currentSceneId, listeners, playbackVars, projectVars>>
  ELSE LET updatedProject ==
             [active[1] EXCEPT !.scenes = scenes,
                               !.metadata.duration = GetProjectDurationFromScenes(scenes),
                               !.metadata.updatedAt = DateNow]
       IN /\ Len(pending) < most
          /\ pending' = Append(pending,
                               Suspended("saveCurrentProject", "setItem",
                                         updatedProject.metadata.id, <<updatedProject>>,
                                         <<SerializeProject(updatedProject)>>, <<>>, <<>>))
          /\ last' = Called("saveCurrentProject", "saving", "")
          /\ UNCHANGED <<counter, scenes, currentSceneId, listeners, playbackVars, active, savedProjects,
                         isLoading, isInitialized, assets, assetsAdded, selected, storedItems, storedIndex>>

\* The same call made while fewer than MaxPending calls are under way.
SaveCurrentProject == SaveCurrentProjectUnder(MaxPending)

\* deleteProjects with the scene registry left as it is when the active
\* project is among the deleted ones.
DeleteProjectsEnd_ScenesKept(ids, op) ==
  /\ savedProjects' = Filter(savedProjects, LAMBDA m : ~Includes(ids, m.id))
  /\ IF active # <<>> /\ Includes(ids, active[1].metadata.id)
     THEN /\ active' = <<>>
          /\ assets' = <<>>
          /\ last' = [op EXCEPT !.did = "deleted-active"]
          /\ UNCHANGED <<scenes, currentSceneId>>
     ELSE /\ last' = [op EXCEPT !.did = "deleted"]
          /\ UNCHANGED <<active, assets, scenes, currentSceneId>>

\* What deleteProjects does once its loop is over.
DeleteProjectsEnd(ids, op) ==
  /\ savedProjects' = Filter(savedProjects, LAMBDA m : ~Includes(ids, m.id))
  /\ IF active # <<>> /\ Includes(ids, active[1].metadata.id)
     THEN /\ active' = <<>>
          /\ assets' = <<>>
          /\ scenes' = <<>>
          /\ currentSceneId' = NoId
          /\ last' = [op EXCEPT !.did = "deleted-active"]
     ELSE /\ last' = [op EXCEPT !.did = "deleted"]
          /\ UNCHANGED <<active, assets, scenes, currentSceneId>>

\* ProjectManager.deleteProjects up to its first await; with no ids there is
\* none and the call runs to its end.
DeleteProjectsUnder(most, ids) ==
  /\ IF ids = <<>>
     THEN /\ DeleteProjectsEnd(ids, Called("deleteProjects", "", ""))
          /\ UNCHANGED pending
     ELSE /\ Len(pending) < most
          /\ pending' = Append(pending,
                               Suspended("deleteProjects", "removeItem", Head(ids),
                                         <<>>, <<>>, ids, Tail(ids)))
          /\ last' = Called("deleteProjects", "deleting", "")
          /\ UNCHANGED <<active, savedProjects, assets, scenes, currentSceneId>>
  /\ UNCHANGED <<counter, listeners, playbackVars, isLoading, isInitialized, assetsAdded, selected, storedItems,
                 storedIndex>>

\* The same call made while fewer than MaxPending calls are under way.
DeleteProjects(ids) == DeleteProjectsUnder(MaxPending, ids)

\* ProjectManager.renameProject up to its await of storageService.loadProject.
RenameProjectUnder(most, id, name) ==
  /\ Len(pending) < most
  /\ pending' = Append(pending,
                       [Suspended("renameProject", "getItem", id, <<>>, <<>>, <<>>, <<>>)
                          EXCEPT !.name = name])
  /\ last' = Called("renameProject", "fetching", "")
  /\ UNCHANGED <<counter, scenes, currentSceneId, listeners, playbackVars, active, savedProjects,
                 isLoading, isInitialized, assets, assetsAdded, selected, storedItems, storedIndex>>

\* The same call made while fewer than MaxPending calls are under way.
RenameProject(id, name) == RenameProjectUnder(MaxPending, id, name)

\* The project renameProject goes on with: the loaded one under the new name,
\* its updatedAt read from the clock.
Renamed(project, name) ==
  [project EXCEPT !.metadata.name = name, !.metadata.updatedAt = DateNow]

\* The end of renameProject with the renamed project made the active one
\* whatever project is active.
RenameProjectEnd_AlwaysActive(call, op) ==
  /\ active' = call.project
  /\ savedProjects' = updateMetadata(savedProjects, call.project[1].metadata)
  /\ last' = op
  /\ UNCHANGED <<assets, scenes, currentSceneId>>

\* What renameProject does once saveProject is over.
RenameProjectEnd(call, op) ==
  /\ active' = IF active # <<>> /\ active[1].metadata.id = call.id
                THEN call.project ELSE active
  /\ savedProjects' = updateMetadata(savedProjects, call.project[1].metadata)
  /\ last' = op
  /\ UNCHANGED <<assets, scenes, currentSceneId>>

\* closeProject with the metadata index emptied as well.
CloseProject_IndexEmptied ==
  /\ active' = <<>>
  /\ assets' = <<>>
  /\ scenes' = <<>>
  /\ currentSceneId' = NoId
  /\ savedProjects' = <<>>
  /\ last' = Called("closeProject", "closed", "")
  /\ UNCHANGED <<counter, listeners, playbackVars, isLoading, isInitialized, assetsAdded, selected,
                 storedItems, storedIndex, pending>>

\* ProjectManager.closeProject
CloseProject ==
  /\ active' = <<>>
  /\ assets' = <<>>
  /\ scenes' = <<>>
  /\ currentSceneId' = NoId
  /\ last' = Called("closeProject", "closed", "")
  /\ UNCHANGED <<counter, listeners, playbackVars, savedProjects, isLoading, isInitialized, assetsAdded, selected,
                 storedItems, storedIndex, pending>>

\* The rest of createNewProject, saveCurrentProject, deleteProjects or
\* renameProject, run when the storage call of the suspended call k has
\* resolved.
Resume(k) ==
  LET call == pending[k]
  IN /\ pending' = RemoveAt(pending, k)
     /\ UNCHANGED <<counter, listeners, playbackVars, isLoading, isInitialized, assetsAdded, selected>>
     /\ CASE call.op = "createNewProject" ->
               /\ savedProjects' = updateMetadata(savedProjects, call.project[1].metadata)
               /\ last' = Settled(k, "resolved")
               /\ UNCHANGED <<active, assets, scenes, currentSceneId>>
          [] call.op = "saveCurrentProject" ->
               /\ active' = call.project
               /\ savedProjects' = updateMetadata(savedProjects, call.project[1].metadata)
               /\ last' = Settled(k, "resolved")
               /\ UNCHANGED <<assets, scenes, currentSceneId>>
          [] call.op = "deleteProjects" ->
               DeleteProjectsEnd(call.all, Settled(k, ""))
          [] call.op = "renameProject" ->
               RenameProjectEnd(call, Settled(k, "resolved"))

\* AsyncStorage.setItem of saveProject takes effect; addToIndex goes on to
\* getIndex.
StorageSetItem(k) ==
  /\ k \in 1..Len(pending)
  /\ pending[k].pc = "setItem"
  /\ storedItems' = SetItem(storedItems, pending[k].id, pending[k].json[1])
  /\ pending' = [pending EXCEPT ![k].pc = "getIndex"]
  /\ last' = Called("storage", "setItem", Uninterrupted(k))
  /\ UNCHANGED <<counter, scenes, currentSceneId, listeners, playbackVars, active, savedProjects,
                 isLoading, isInitialized, assets, assetsAdded, selected, storedIndex>>

\* AsyncStorage.removeItem of deleteProject takes effect; removeFromIndex goes
\* on to getIndex.
StorageRemoveItem(k) ==
  /\ k \in 1..Len(pending)
  /\ pending[k].pc = "removeItem"
  /\ storedItems' = RemoveItem(storedItems, pending[k].id)
  /\ pending' = [pending EXCEPT ![k].pc = "getIndex"]
  /\ last' = Called("storage", "removeItem", Uninterrupted(k))
  /\ UNCHANGED <<counter, scenes, currentSceneId, listeners, playbackVars, active, savedProjects,
                 isLoading, isInitialized, assets, assetsAdded, selected, storedIndex>>

\* getIndex resolves.  addToIndex writes the index with the id pushed unless it
\* is there already, in which case saveProject is over; removeFromIndex writes
\* the index without the id.
StorageGetIndex(k) ==
  /\ k \in 1..Len(pending)
  /\ pending[k].pc = "getIndex"
  /\ pending[k].op # "loadAllProjects"
  /\ UNCHANGED <<storedItems, storedIndex>>
  /\ LET call == pending[k]
         ids == storedIndex
     IN IF call.op = "deleteProjects"
        THEN /\ pending' = [pending EXCEPT
                              ![k].pc = "setIndex",
                              ![k].ids = Filter(ids, LAMBDA existing : existing # call.id)]
             /\ last' = Called("storage", "getIndex", Uninterrupted(k))
             /\ UNCHANGED <<counter, scenes, currentSceneId, listeners, playbackVars, active,
                            savedProjects, isLoading, isInitialized, assets, assetsAdded, selected>>
        ELSE IF ~Includes(ids, call.id)
        THEN /\ pending' = [pending EXCEPT ![k].pc = "setIndex",
                                           ![k].ids = Append(ids, call.id)]
             /\ last' = Called("storage", "getIndex", Uninterrupted(k))
             /\ UNCHANGED <<counter, scenes, currentSceneId, listeners, playbackVars, active,
                            savedProjects, isLoading, isInitialized, assets, assetsAdded, selected>>
        ELSE Resume(k)

\* The index write takes effect: saveProject is over, or deleteProject is and
\* deleteProjects goes on with its next id, if any.
StorageSetIndex(k) ==
  /\ k \in 1..Len(pending)
  /\ pending[k].pc = "setIndex"
  /\ storedIndex' = pending[k].ids
  /\ LET call == pending[k]
     IN IF call.op = "deleteProjects" /\ call.rest # <<>>
        THEN /\ pending' = [pending EXCEPT ![k].pc = "removeItem",
                                           ![k].id = Head(call.rest),
                                           ![k].rest = Tail(call.rest)]
             /\ storedItems' = storedItems
             /\ last' = Called("storage", "setIndex", Uninterrupted(k))
             /\ UNCHANGED <<counter, scenes, currentSceneId, listeners, playbackVars, active,
                            savedProjects, isLoading, isInitialized, assets, assetsAdded, selected>>
        ELSE /\ storedItems' = storedItems
             /\ Resume(k)

\* storageService.loadProject resolves and loadProject runs to its end: with
\* null it clears isLoading and throws; with a project it makes it the active
\* one and, if it has a scene, initializes the scenes from it.
StorageGetItem(k) ==
  /\ k \in 1..Len(pending)
  /\ pending[k].pc = "getItem"
  /\ pending[k].op = "loadProject"
  /\ pending' = RemoveAt(pending, k)
  /\ isLoading' = FALSE
  /\ LET raw == GetItem(storedItems, pending[k].id)
     IN IF raw = <<>>
        THEN /\ last' = Settled(k, "not-found")
             /\ UNCHANGED <<active, scenes, currentSceneId>>
        ELSE LET project == DeserializeProject(raw[1])
             IN /\ active' = <<project>>
                /\ IF Len(project.scenes) > 0
                   THEN /\ scenes' = project.scenes
                        /\ currentSceneId' =
                             InitialSceneId(project.scenes, project.currentSceneId)
                   ELSE UNCHANGED <<scenes, currentSceneId>>
                /\ last' = Settled(k, "loaded")
  /\ UNCHANGED <<counter, listeners, playbackVars, savedProjects, isInitialized, assets, assetsAdded, selected,
                 storedItems, storedIndex>>

\* storageService.loadProject resolves for renameProject: with null the call
\* returns; with a project it goes on to saveProject with the renamed project,
\* whose setItem is issued with its serialization.
StorageGetItemToRename(k) ==
  /\ k \in 1..Len(pending)
  /\ pending[k].pc = "getItem"
  /\ pending[k].op = "renameProject"
  /\ LET raw == GetItem(storedItems, pending[k].id)
     IN IF raw = <<>>
        THEN /\ pending' = RemoveAt(pending, k)
             /\ last' = Settled(k, "not-found")
        ELSE LET updated == Renamed(DeserializeProject(raw[1]), pending[k].name)
             IN /\ pending' = [pending EXCEPT ![k].pc = "setItem",
                                              ![k].project = <<updated>>,
                                              ![k].json = <<SerializeProject(updated)>>]
                /\ last' = Called("renameProject", "found", "")
  /\ UNCHANGED <<counter, scenes, currentSceneId, listeners, playbackVars, active, savedProjects,
                 isLoading, isInitialized, assets, assetsAdded, selected, storedItems, storedIndex>>

\* MediaManager.addAsset
AddAsset(asset) ==
  /\ assetsAdded < MaxAssets
  /\ assets' = Append(assets, asset)
  /\ assetsAdded' = assetsAdded + 1
  /\ last' = Called("addAsset", "", "")
  /\ UNCHANGED <<counter, scenes, currentSceneId, listeners, playbackVars, active, savedProjects,
                 isLoading, isInitialized, selected, storedItems, storedIndex, pending>>

\* SelectionManager.setSelection
SetSelection(elements) ==
  /\ selected' = elements
  /\ last' = Called("setSelection", "", "")
  /\ UNCHANGED <<counter, scenes, currentSceneId, listeners, playbackVars, active, savedProjects,
                 isLoading, isInitialized, assets, assetsAdded, storedItems, storedIndex, pending>>

\* SelectionManager.clearSelection
ClearSelection ==
  /\ selected' = <<>>
  /\ last' = Called("clearSelection", "", "")
  /\ UNCHANGED <<counter, scenes, currentSceneId, listeners, playbackVars, active, savedProjects,
                 isLoading, isInitialized, assets, assetsAdded, storedItems, storedIndex, pending>>

\* The asset a caller hands over next: callers name their assets apart.
AssetInputs == { [id |-> 0 - (assetsAdded + 1), name |-> "asset", type |-> "video"] }

\* The selections callers make: an element of a track of the active scene.
SelectionInputs ==
  { <<[trackId |-> t, elementId |-> e]>> : t \in TrackIdsOf(GetTracks), e \in CallerIds }

\* The project ids callers pass: those listed, stored or active, and one that
\* was never given to a project.
ProjectIdInputs ==
  { savedProjects[i].id : i \in 1..Len(savedProjects) } \cup DOMAIN storedItems \cup
  { active[i].metadata.id : i \in 1..Len(active) } \cup {MissingProject}

\* The id lists callers pass to deleteProjects: none, one id, or an id that was
\* never given to a project followed by one.
DeleteInputs ==
  {<<>>} \cup { <<id>> : id \in ProjectIdInputs } \cup
  { <<MissingProject, id>> : id \in ProjectIdInputs }

\* The scene ids callers pass to setActiveScene.
ActiveSceneInputs == { scenes[i].id : i \in 1..Len(scenes) } \cup {MissingScene}

ProjectNext ==
  \/ \E name \in ProjectNames : CreateNewProject(name)
  \/ \E id \in ProjectIdInputs : LoadProject(id)
  \/ SaveCurrentProject
  \/ \E ids \in DeleteInputs : DeleteProjects(ids)
  \/ CloseProject
  \/ \E k \in 1..MaxPending : StorageSetItem(k)
  \/ \E k \in 1..MaxPending : StorageRemoveItem(k)
  \/ \E k \in 1..MaxPending : StorageGetIndex(k)
  \/ \E k \in 1..MaxPending : StorageSetIndex(k)
  \/ \E k \in 1..MaxPending : StorageGetItem(k)
  \/ \E asset \in AssetInputs : AddAsset(asset)
  \/ \E elements \in SelectionInputs : SetSelection(elements)
  \/ ClearSelection
  \/ \E id \in ActiveSceneInputs : SetActiveScene(id)
  \/ ClearScenes

\* The project lifecycle: ProjectManager, storage, scenes, media and selection.
ProjectSpec == Init /\ [][ProjectNext]_vars

\* Time passes.
Advance ==
  /\ now < MaxNow
  /\ now' = now + 1
  /\ last' = Called("advance", "", "")
  /\ UNCHANGED <<counter, scenes, currentSceneId, listeners, projectVars, currentTime,
                 playing, animationFrame, lastTimestamp, playbackListeners, frames>>

\* The names callers rename projects to.
RenameNames == {"p", "q"}

RenameNext ==
  \/ \E name \in ProjectNames : CreateNewProject(name)
  \/ \E id \in ProjectIdInputs : LoadProject(id)
  \/ \E id \in ProjectIdInputs, name \in RenameNames : RenameProject(id, name)
  \/ \E ids \in DeleteInputs : DeleteProjects(ids)
  \/ CloseProject
  \/ \E k \in 1..MaxPending : StorageSetItem(k)
  \/ \E k \in 1..MaxPending : StorageRemoveItem(k)
  \/ \E k \in 1..MaxPending : StorageGetIndex(k)
  \/ \E k \in 1..MaxPending : StorageSetIndex(k)
  \/ \E k \in 1..MaxPending : StorageGetItem(k)
  \/ \E k \in 1..MaxPending : StorageGetItemToRename(k)
  \/ Advance

\* Projects being created, renamed, loaded, closed and deleted as time passes.
RenameSpec == Init /\ [][RenameNext]_vars

\* ------------------------------------------- ProjectManager: overlapping calls

\* metadata.sort((a, b) => b.updatedAt.getTime() - a.updatedAt.getTime()): the
\* later update first, entries of the same time in the order they were pushed.
RECURSIVE InsertByUpdatedAt(_, _)
InsertByUpdatedAt(sorted, m) ==
  IF sorted = <<>> THEN <<m>>
  ELSE IF m.updatedAt.time - Head(sorted).updatedAt.time <= 0
       THEN <<Head(sorted)>> \o InsertByUpdatedAt(Tail(sorted), m)
       ELSE <<m>> \o sorted

RECURSIVE SortByUpdatedAt(_)
SortByUpdatedAt(metadata) ==
  IF metadata = <<>> THEN <<>>
  ELSE InsertByUpdatedAt(SortByUpdatedAt(SubSeq(metadata, 1, Len(metadata) - 1)),
                         metadata[Len(metadata)])

\* ProjectManager.loadAllProjects up to its first await, the getIndex of
\* loadAllProjectsMetadata.
LoadAllProjectsUnder(most) ==
  /\ Len(pending) < most
  /\ isLoading' = TRUE
  /\ pending' = Append(pending,
                       Suspended("loadAllProjects", "getIndex", NoId, <<>>, <<>>, <<>>, <<>>))
  /\ last' = Called("loadAllProjects", "fetching", "")
  /\ UNCHANGED <<counter, scenes, currentSceneId, listeners, playbackVars, active, savedProjects,
                 isInitialized, assets, assetsAdded, selected, storedItems, storedIndex>>

\* What loadAllProjects does once loadAllProjectsMetadata has returned the
\* metadata it pushed, sorted.
LoadAllProjectsEnd(k, metadata) ==
  /\ pending' = RemoveAt(pending, k)
  /\ savedProjects' = SortByUpdatedAt(metadata)
  /\ isLoading' = FALSE
  /\ isInitialized' = TRUE
  /\ last' = Settled(k, "listed")

\* getIndex resolves for loadAllProjectsMetadata, which goes on to load the
\* first project of the index; with an empty index it returns.
StorageGetIndexToList(k) ==
  /\ k \in 1..Len(pending)
  /\ pending[k].pc = "getIndex"
  /\ pending[k].op = "loadAllProjects"
  /\ LET ids == storedIndex
     IN IF ids = <<>>
        THEN LoadAllProjectsEnd(k, <<>>)
        ELSE /\ pending' = [pending EXCEPT ![k].pc = "getItem",
                                           ![k].ids = ids,
                                           ![k].id = Head(ids),
                                           ![k].rest = Tail(ids)]
             /\ last' = Called("storage", "getIndex", "")
             /\ UNCHANGED <<savedProjects, isLoading, isInitialized>>
  /\ UNCHANGED <<counter, scenes, currentSceneId, listeners, playbackVars, active, assets,
                 assetsAdded, selected, storedItems, storedIndex>>

\* storageService.loadProject resolves for loadAllProjectsMetadata: the
\* metadata of a project found is pushed, and the loop goes on with the next
\* id of the index, if any.
StorageGetItemToList(k) ==
  /\ k \in 1..Len(pending)
  /\ pending[k].pc = "getItem"
  /\ pending[k].op = "loadAllProjects"
  /\ LET call == pending[k]
         raw == GetItem(storedItems, call.id)
         metadata == IF raw = <<>> THEN call.metadata
                     ELSE Append(call.metadata, DeserializeProject(raw[1]).metadata)
     IN IF call.rest = <<>>
        THEN LoadAllProjectsEnd(k, metadata)
        ELSE /\ pending' = [pending EXCEPT ![k].metadata = metadata,
                                           ![k].id = Head(call.rest),
                                           ![k].rest = Tail(call.rest)]
             /\ last' = Called("storage", "getItem", "")
             /\ UNCHANGED <<savedProjects, isLoading, isInitialized>>
  /\ UNCHANGED <<counter, scenes, currentSceneId, listeners, playbackVars, active, assets,
                 assetsAdded, selected, storedItems, storedIndex>>

\* The AsyncStorage call that the suspended call k awaits rejects: the method
\* throws at its await, and nothing that follows the await runs.
StorageRejects(k) ==
  /\ k \in 1..Len(pending)
  /\ pending' = RemoveAt(pending, k)
  /\ last' = Settled(k, "rejected")
  /\ UNCHANGED <<counter, scenes, currentSceneId, listeners, playbackVars, active, savedProjects,
                 isLoading, isInitialized, assets, assetsAdded, selected, storedItems,
                 storedIndex>>

\* The ids callers pass to deleteProjects one at a time.
DeleteOneInputs == { <<id>> : id \in ProjectIdInputs }

\* createNewProject called on an editor that has generated no id yet.
CreateFirstProject(name) == counter = 0 /\ CreateNewProjectUnder(MaxOverlap, name)

OverlapNext ==
  \/ \E name \in ProjectNames : CreateFirstProject(name)
  \/ \E id \in ProjectIdInputs : LoadProjectUnder(MaxOverlap, id)
  \/ SaveCurrentProjectUnder(MaxOverlap)
  \/ \E ids \in DeleteOneInputs : DeleteProjectsUnder(MaxOverlap, ids)
  \/ \E id \in ProjectIdInputs : RenameProjectUnder(MaxOverlap, id, "q")
  \/ CloseProject
  \/ \E k \in 1..MaxOverlap : StorageSetItem(k)
  \/ \E k \in 1..MaxOverlap : StorageRemoveItem(k)
  \/ \E k \in 1..MaxOverlap : StorageGetIndex(k)
  \/ \E k \in 1..MaxOverlap : StorageSetIndex(k)
  \/ \E k \in 1..MaxOverlap : StorageGetItem(k)
  \/ \E k \in 1..MaxOverlap : StorageGetItemToRename(k)

\* ProjectManager calls on one project, made while earlier ones await storage.
OverlapSpec == Init /\ [][OverlapNext]_vars

\* Whether no call under way is about the project id.
Untouched(id) == \A k \in 1..Len(pending) : pending[k].id # id

\* The ids callers pass to deleteProjects while no other call is about them.
DeleteApartInputs == { ids \in DeleteOneInputs : Untouched(ids[1]) }

\* saveCurrentProject called while no other call is about the active project.
SaveApart ==
  /\ active # <<>> => Untouched(active[1].metadata.id)
  /\ SaveCurrentProjectUnder(MaxOverlap)

\* loadAllProjectsMetadata run with nothing else running: the metadata of the
\* projects found under the ids of the index, sorted.
RECURSIVE PushedMetadata(_, _)
PushedMetadata(ids, items) ==
  IF ids = <<>> THEN <<>>
  ELSE LET raw == GetItem(items, Head(ids))
       IN (IF raw = <<>> THEN <<>> ELSE <<DeserializeProject(raw[1]).metadata>>)
            \o PushedMetadata(Tail(ids), items)

LoadAllProjectsMetadata(ids, items) == SortByUpdatedAt(PushedMetadata(ids, items))

IndexNext ==
  \/ \E name \in ProjectNames : CreateNewProjectUnder(MaxOverlap, name)
  \/ SaveApart
  \/ \E ids \in DeleteApartInputs : DeleteProjectsUnder(MaxOverlap, ids)
  \/ \E k \in 1..MaxOverlap : StorageSetItem(k)
  \/ \E k \in 1..MaxOverlap : StorageRemoveItem(k)
  \/ \E k \in 1..MaxOverlap : StorageGetIndex(k)
  \/ \E k \in 1..MaxOverlap : StorageSetIndex(k)

\* Projects being saved and deleted while saves and deletions of other
\* projects await storage.
IndexSpec == Init /\ [][IndexNext]_vars

LoadingNext ==
  \/ \E name \in ProjectNames : CreateNewProjectUnder(MaxOverlap, name)
  \/ \E id \in ProjectIdInputs : LoadProjectUnder(MaxOverlap, id)
  \/ LoadAllProjectsUnder(MaxOverlap)
  \/ \E k \in 1..MaxOverlap : StorageSetItem(k)
  \/ \E k \in 1..MaxOverlap : StorageGetIndex(k)
  \/ \E k \in 1..MaxOverlap : StorageSetIndex(k)
  \/ \E k \in 1..MaxOverlap : StorageGetItem(k)
  \/ \E k \in 1..MaxOverlap : StorageGetIndexToList(k)
  \/ \E k \in 1..MaxOverlap : StorageGetItemToList(k)
  \/ \E k \in 1..MaxOverlap : StorageRejects(k)

\* Projects and the project list being loaded from a storage that may fail.
LoadingSpec == Init /\ [][LoadingNext]_vars

\* ------------------------------------------------- ScenesManager: bookmarks

\* The times callers toggle a bookmark at.
BookmarkTimes == {1, 2, 3}

\* Array.prototype.indexOf: the first position holding x, 0 for -1.
IndexOf(s, x) ==
  IF \E i \in 1..Len(s) : s[i] = x
  THEN CHOOSE i \in 1..Len(s) : s[i] = x /\ \A j \in 1..(i - 1) : s[j] # x
  ELSE 0

\* bookmarks.sort((a, b) => a - b)
RECURSIVE InsertAscending(_, _)
InsertAscending(sorted, x) ==
  IF sorted = <<>> THEN <<x>>
  ELSE IF Head(sorted) - x <= 0 THEN <<Head(sorted)>> \o InsertAscending(Tail(sorted), x)
  ELSE <<x>> \o sorted

RECURSIVE SortAscending(_)
SortAscending(s) ==
  IF s = <<>> THEN <<>>
  ELSE InsertAscending(SortAscending(SubSeq(s, 1, Len(s) - 1)), s[Len(s)])

\* toggleBookmark with the time pushed and the list left in that order.
toggleBookmark_Unsorted(bookmarks, time) ==
  LET idx == IndexOf(bookmarks, time)
  IN IF idx > 0 THEN RemoveAt(bookmarks, idx) ELSE Append(bookmarks, time)

\* toggleBookmark with the time added whether it is there or not.
toggleBookmark_AlwaysAdds(bookmarks, time) == SortAscending(Append(bookmarks, time))

\* ScenesManager.toggleBookmark on the bookmarks of the active scene.
toggleBookmark(bookmarks, time) ==
  LET idx == IndexOf(bookmarks, time)
  IN IF idx > 0 THEN RemoveAt(bookmarks, idx)
     ELSE SortAscending(Append(bookmarks, time))

\* ScenesManager.isBookmarked
isBookmarked(ss, id, time) ==
  LET ai == GetActiveScene(ss, id)
  IN IF ai = 0 THEN FALSE ELSE Includes(ss[ai].bookmarks, time)

\* A toggleBookmark call; last tells whether the time was removed, added at
\* the end, or added before a later bookmark.
ToggleBookmark(time) ==
  LET ai == GetActiveScene(scenes, currentSceneId)
  IN /\ IF ai = 0
        THEN /\ last' = Called("toggleBookmark", "no-scene", "")
             /\ UNCHANGED scenes
        ELSE LET before == scenes[ai].bookmarks
                 after == toggleBookmark(before, time)
             IN /\ scenes' = [scenes EXCEPT ![ai].bookmarks = after]
                /\ last' = Called("toggleBookmark",
                                  IF Includes(before, time) THEN "removed"
                                  ELSE IF \E i \in 1..Len(before) : before[i] > time
                                  THEN "inserted" ELSE "appended", "")
     /\ UNCHANGED <<counter, currentSceneId, listeners, playbackVars, projectVars>>

\* initializeScenes is called by createNewProject and loadProject only, so the
\* scenes are those of a new project or of a stored one.
BookmarkNext ==
  \/ ClearScenes
  \/ \E time \in BookmarkTimes : ToggleBookmark(time)
  \/ \E name \in ProjectNames : CreateNewProject(name)
  \/ \E id \in ProjectIdInputs : LoadProject(id)
  \/ SaveCurrentProject
  \/ \E k \in 1..MaxPending : StorageSetItem(k)
  \/ \E k \in 1..MaxPending : StorageGetIndex(k)
  \/ \E k \in 1..MaxPending : StorageSetIndex(k)
  \/ \E k \in 1..MaxPending : StorageGetItem(k)

\* Scenes with their bookmarks, in the registry and through save and load.
BookmarkSpec == Init /\ [][BookmarkNext]_vars

\* What an earlier version of the program stored for a project: the scene has
\* no bookmarks.  Its ids are the first three generated.
LegacyIds == 3
LegacyItem ==
  [metadata |-> [id |-> 3, name |-> "p", duration |-> 0,
                 createdAt |-> [iso |-> 0], updatedAt |-> [iso |-> 0]],
   scenes |-> <<[id |-> 1, name |-> "Main scene", isMain |-> TRUE,
                 tracks |-> <<[id |-> 2, name |-> <<"Video", 1>>, type |-> "video",
                               elements |-> <<>>, isMain |-> TRUE,
                               muted |-> FALSE, hidden |-> FALSE]>>,
                 createdAt |-> [iso |-> 0], updatedAt |-> [iso |-> 0]]>>,
   currentSceneId |-> 1,
   settings |-> [fps |-> DEFAULT_FPS, canvasSize |-> DEFAULT_CANVAS_SIZE,
                 originalCanvasSize |-> <<>>,
                 background |-> [type |-> "color", color |-> DEFAULT_COLOR]],
   version |-> CURRENT_PROJECT_VERSION]

\* The editor started on a storage that holds that project.
RoundTripInit ==
  /\ counter = LegacyIds
  /\ storedItems = SetItem(<<>>, LegacyItem.metadata.id, LegacyItem)
  /\ storedIndex = <<LegacyItem.metadata.id>>
  /\ scenes = <<>>
  /\ currentSceneId = NoId
  /\ listeners = ListenerIds
  /\ active = <<>>
  /\ savedProjects = <<>>
  /\ isLoading = TRUE
  /\ isInitialized = FALSE
  /\ assets = <<>>
  /\ assetsAdded = 0
  /\ selected = <<>>
  /\ pending = <<>>
  /\ currentTime = 0
  /\ playing = FALSE
  /\ animationFrame = 0
  /\ lastTimestamp = 0
  /\ playbackListeners = <<>>
  /\ frames = {}
  /\ now = 0
  /\ last = Called("new", "", "")

\* The times bookmarks of stored projects are toggled at.
StoredBookmarkTimes == {1, 2}

RoundTripNext ==
  \/ \E name \in ProjectNames : CreateNewProject(name)
  \/ \E time \in StoredBookmarkTimes : ToggleBookmark(time)
  \/ SaveCurrentProject
  \/ \E id \in ProjectIdInputs : LoadProject(id)
  \/ \E k \in 1..MaxPending : StorageSetItem(k)
  \/ \E k \in 1..MaxPending : StorageGetIndex(k)
  \/ \E k \in 1..MaxPending : StorageSetIndex(k)
  \/ \E k \in 1..MaxPending : StorageGetItem(k)
  \/ Advance

\* Projects being stored and read back as time passes.
RoundTripSpec == RoundTripInit /\ [][RoundTripNext]_vars

\* ---------------------------------------------------- listeners being called

\* What a listener does when it is called: nothing, or a call of the function
\* subscribe returned for target (unsubscribe), of subscribe with target
\* (subscribe), of both in that order (resubscribe), or of playback.pause().
Reactions ==
  {[kind |-> "none", target |-> ""], [kind |-> "pause", target |-> ""]} \cup
  { [kind |-> k, target |-> x] :
      k \in {"unsubscribe", "subscribe", "resubscribe"}, x \in ListenerIds }

\* What each listener does when called: nothing, but for one listener at most.
Passive == [l \in ListenerIds |-> [kind |-> "none", target |-> ""]]
ReactionInputs ==
  { [Passive EXCEPT ![l] = reaction] : l \in ListenerIds, reaction \in Reactions }

\* Set.prototype.delete while a for-of loop has visited the first i entries:
\* the entry goes; the entries not yet visited stay ahead of the loop.
SetDelete(order, i, x) ==
  IF ~Includes(order, x) THEN [order |-> order, i |-> i]
  ELSE LET p == CHOOSE q \in 1..Len(order) : order[q] = x
       IN [order |-> SubSeq(order, 1, p - 1) \o SubSeq(order, p + 1, Len(order)),
           i |-> IF p <= i THEN i - 1 ELSE i]

\* Set.prototype.add: a value not in the set goes to the end of it.
SetAdd(order, x) == IF Includes(order, x) THEN order ELSE Append(order, x)

\* The listener set after a listener has reacted.
React(order, i, reaction) ==
  CASE reaction.kind = "unsubscribe" -> SetDelete(order, i, reaction.target)
    [] reaction.kind = "subscribe" -> [order |-> SetAdd(order, reaction.target), i |-> i]
    [] reaction.kind = "resubscribe" ->
         LET d == SetDelete(order, i, reaction.target)
         IN [order |-> SetAdd(d.order, reaction.target), i |-> d.i]
    [] OTHER -> [order |-> order, i |-> i]

\* for (const listener of this.listeners) listener(): the loop goes on while
\* the set has an entry it has not visited.  calls is the number of calls the
\* loop is followed for; a loop still going then is reported as diverged.
RECURSIVE FanOutFrom(_, _, _, _, _)
FanOutFrom(order, i, react, invoked, calls) ==
  IF i >= Len(order)
  THEN [listeners |-> order, invoked |-> invoked, diverged |-> FALSE]
  ELSE IF calls = 0
  THEN [listeners |-> order, invoked |-> invoked, diverged |-> TRUE]
  ELSE LET l == order[i + 1]
           after == React(order, i + 1, react[l])
       IN FanOutFrom(after.order, after.i, react, Append(invoked, l), calls - 1)

\* notify() of PlaybackManager, ProjectManager and EditorCore on the listener
\* set order.
FanOut(order, react) == FanOutFrom(order, 0, react, <<>>, MaxCalls)

\* ----------------------------------------------------------- PlaybackManager

\* The PlaybackManager as a record: its fields and the frames it has requested.
\* Times are in milliseconds, currentTime included (the source keeps it in
\* seconds, delta being the milliseconds elapsed divided by 1000).
Playback ==
  [currentTime |-> currentTime, playing |-> playing, animationFrame |-> animationFrame,
   lastTimestamp |-> lastTimestamp, listeners |-> playbackListeners, frames |-> frames]

\* The outcome of a PlaybackManager call: the manager after it, the playback
\* listeners called, in order, the rounds of EditorCore.notify it made, and
\* whether a notify of it never ended.
Outcome(pb, invoked, diverged) ==
  [pb |-> pb, invoked |-> invoked, log |-> <<>>, diverged |-> diverged]

\* pause() on a playing clock, up to its notify: the frame held in
\* animationFrame, if any, is cancelled.
Paused(pb) ==
  IF pb.animationFrame # 0
  THEN [pb EXCEPT !.playing = FALSE, !.frames = @ \ {pb.animationFrame},
                  !.animationFrame = 0]
  ELSE [pb EXCEPT !.playing = FALSE]

\* The loop of PlaybackManager.notify from the listener after the first i,
\* followed for calls listener calls.  A listener that calls pause() on a
\* playing clock runs pause to its end, notify included, before the loop goes
\* on with the next listener.
RECURSIVE NotifyFrom(_, _, _, _, _)
NotifyFrom(pb, i, react, invoked, calls) ==
  IF i >= Len(pb.listeners) THEN Outcome(pb, invoked, FALSE)
  ELSE IF calls = 0 THEN Outcome(pb, invoked, TRUE)
  ELSE LET l == pb.listeners[i + 1]
           called == Append(invoked, l)
       IN IF react[l].kind = "pause"
          THEN IF ~pb.playing
               THEN NotifyFrom(pb, i + 1, react, called, calls - 1)
               ELSE LET inner == NotifyFrom(Paused(pb), 0, react, called, calls - 1)
                    IN IF inner.diverged THEN inner
                       ELSE NotifyFrom(inner.pb, i + 1, react, inner.invoked,
                                       calls - 1 - (Len(inner.invoked) - Len(called)))
          ELSE LET after == React(pb.listeners, i + 1, react[l])
               IN NotifyFrom([pb EXCEPT !.listeners = after.order], after.i, react,
                             called, calls - 1)

\* PlaybackManager.notify
PlaybackNotify(pb, react) == NotifyFrom(pb, 0, react, <<>>, MaxCalls)

\* requestAnimationFrame: a handle no pending frame has, other than the one
\* held in animationFrame.
NextFrame(pb) ==
  CHOOSE h \in 1..(Cardinality(pb.frames) + 2) :
    /\ h \notin pb.frames \cup {pb.animationFrame}
    /\ \A g \in 1..(h - 1) : g \in pb.frames \cup {pb.animationFrame}

\* PlaybackManager.tick at time t.
tick(pb, t, react) ==
  IF ~pb.playing THEN Outcome(pb, <<>>, FALSE)
  ELSE LET delta == t - pb.lastTimestamp
           n == PlaybackNotify([pb EXCEPT !.lastTimestamp = t,
                                          !.currentTime = @ + delta], react)
           h == NextFrame(n.pb)
       IN IF n.diverged THEN n
          ELSE Outcome([n.pb EXCEPT !.animationFrame = h, !.frames = @ \cup {h}],
                       n.invoked, FALSE)

\* PlaybackManager.play at time t.
play(pb, t, react) ==
  IF pb.playing THEN Outcome(pb, <<>>, FALSE)
  ELSE LET ticked == tick([pb EXCEPT !.playing = TRUE, !.lastTimestamp = t], t, react)
           n == PlaybackNotify(ticked.pb, react)
       IN IF ticked.diverged THEN ticked
          ELSE Outcome(n.pb, ticked.invoked \o n.invoked, n.diverged)

\* pause without its guard: the listeners are notified on a paused clock too.
pause_Unguarded(pb, react) == PlaybackNotify(Paused(pb), react)

\* PlaybackManager.pause
pause(pb, react) ==
  IF ~pb.playing THEN Outcome(pb, <<>>, FALSE)
  ELSE PlaybackNotify(Paused(pb), react)

\* PlaybackManager.toggle at time t.
toggle(pb, t, react) == IF pb.playing THEN pause(pb, react) ELSE play(pb, t, react)

\* seek with the time taken as it is given.
seek_Unclamped(pb, time, react) == PlaybackNotify([pb EXCEPT !.currentTime = time], react)

\* PlaybackManager.seek
seek(pb, time, react) == PlaybackNotify([pb EXCEPT !.currentTime = Max(0, time)], react)

\* The times callers seek to.
SeekTimes == {-1, 0, 1}

\* A PlaybackManager call with outcome r; a call whose notify never ends does
\* not return.
PlaybackCall(op, r) ==
  /\ ~r.diverged
  /\ Cardinality(r.pb.frames) <= MaxFrames
  /\ currentTime' = r.pb.currentTime
  /\ playing' = r.pb.playing
  /\ animationFrame' = r.pb.animationFrame
  /\ lastTimestamp' = r.pb.lastTimestamp
  /\ playbackListeners' = r.pb.listeners
  /\ frames' = r.pb.frames
  /\ last' = Called(op, IF r.invoked = <<>> THEN "silent" ELSE "notified", "")
  /\ UNCHANGED <<counter, scenes, currentSceneId, listeners, projectVars, now>>

Play(react) == PlaybackCall("play", play(Playback, now, react))
Pause(react) == PlaybackCall("pause", pause(Playback, react))
Toggle(react) == PlaybackCall("toggle", toggle(Playback, now, react))
Seek(time, react) == PlaybackCall("seek", seek(Playback, time, react))

\* The animation frame h is run: the callback is tick.
Tick(h, react) ==
  /\ h \in frames
  /\ PlaybackCall("tick", tick([Playback EXCEPT !.frames = @ \ {h}], now, react))

\* PlaybackManager.subscribe, and the function it returns.
PlaybackSubscribe(l) ==
  /\ playbackListeners' = SetAdd(playbackListeners, l)
  /\ last' = Called("playback.subscribe", "", "")
  /\ UNCHANGED <<counter, scenes, currentSceneId, listeners, projectVars, currentTime,
                 playing, animationFrame, lastTimestamp, frames, now>>

PlaybackUnsubscribe(l) ==
  /\ playbackListeners' = SetDelete(playbackListeners, 0, l).order
  /\ last' = Called("playback.unsubscribe", "", "")
  /\ UNCHANGED <<counter, scenes, currentSceneId, listeners, projectVars, currentTime,
                 playing, animationFrame, lastTimestamp, frames, now>>

PlaybackNext ==
  \/ \E react \in ReactionInputs : Play(react)
  \/ \E react \in ReactionInputs : Pause(react)
  \/ \E react \in ReactionInputs : Toggle(react)
  \/ \E time \in SeekTimes, react \in ReactionInputs : Seek(time, react)
  \/ \E h \in frames, react \in ReactionInputs : Tick(h, react)
  \/ \E l \in ListenerIds : PlaybackSubscribe(l)
  \/ \E l \in ListenerIds : PlaybackUnsubscribe(l)
  \/ Advance

\* The playback clock with its listeners.
PlaybackSpec == Init /\ [][PlaybackNext]_vars

\* -------------------------------------------- the project lifecycle: properties

\* C4: a loadProject call whose id storage does not hold ends in not-found
\* and leaves no active project (getActive() is null), whatever project was
\* active before.
C4_FailedLoadLeavesNoActive ==
  (last.op = "loadProject" /\ last.did = "not-found") => active = <<>>

\* Something of what was there before a call is observable: a scene of the
\* then active project in the scenes, an asset held then in the assets, or the
\* then active project, with its scenes and tracks, as getActive().
Observable(before) ==
  \/ \E i \in 1..Len(scenes) : scenes[i].id \in before.scenes
  \/ \E i \in 1..Len(assets) : assets[i].id \in before.assets
  \/ /\ before.project # NoId
     /\ active # <<>>
     /\ active[1].metadata.id = before.project

\* C5: while the fetch of a loadProject call is pending, and once the call has
\* ended in not-found, no scene, track or asset of the project that was active
\* when the call was made is observable.
C5_NoStaleContentWhileLoading ==
  /\ \A k \in 1..Len(pending) :
       pending[k].op = "loadProject" => ~Observable(pending[k].before)
  /\ (last.op = "loadProject" /\ last.did = "not-found") =>
       ~Observable(last.call[1].before)

\* The most recent step is one at which a ProjectManager call changed the
\* active project.
ChangedActiveProject ==
  \/ last.op = "createNewProject" /\ last.did = "activated"
  \/ last.op = "loadProject" /\ last.did = "loaded"
  \/ last.op = "deleteProjects" /\ last.did = "deleted-active"
  \/ last.op = "closeProject" /\ last.did = "closed"

\* C6: the step at which createNewProject, loadProject, deleteProjects or
\* closeProject changes the active project leaves the assets and the selection
\* empty.
C6_ProjectChangeClearsMediaAndSelection ==
  ChangedActiveProject => (assets = <<>> /\ selected = <<>>)

\* C7: whenever the scenes are not empty, currentSceneId is the id of one of
\* them: getActiveScene() is not null.
C7_ActiveSceneResolves ==
  Len(scenes) > 0 => GetActiveScene(scenes, currentSceneId) # 0

\* --------------------------------------------------- splitElements: properties

\* ref names the element at position ei of the track at position ti: the first
\* track carrying the track id, and its first element carrying the element id.
Names(tracks, ref, ti, ei) ==
  /\ tracks[ti].id = ref.trackId
  /\ \A k \in 1..(ti - 1) : tracks[k].id # ref.trackId
  /\ tracks[ti].elements[ei].id = ref.elementId
  /\ \A k \in 1..(ei - 1) : tracks[ti].elements[k].id # ref.elementId

StrictlyInside(el, t) == el.startTime < t /\ t < el.startTime + el.duration

\* The positions in track ti of the elements that some reference names and
\* that have t strictly inside their interval.
HitPositions(tracks, refs, t, ti) ==
  { ei \in 1..Len(tracks[ti].elements) :
      /\ StrictlyInside(tracks[ti].elements[ei], t)
      /\ \E k \in 1..Len(refs) : Names(tracks, refs[k], ti, ei) }

\* Every id in a track list: the tracks' and the elements'.
IdsIn(tracks) ==
  TrackIdsOf(tracks) \cup
  UNION { { tracks[i].elements[j].id : j \in 1..Len(tracks[i].elements) } :
            i \in 1..Len(tracks) }

\* The (track, element) positions of a track list.
Positions(tracks) ==
  { p \in (1..Len(tracks)) \X (1..MaxElements + 2) : p[2] <= Len(tracks[p[1]].elements) }

\* C1: splitElements without retainSide replaces every referenced element E
\* that has splitTime strictly inside by two elements in E's place: a left part
\* equal to E but for duration = splitTime - E.startTime, and a right part
\* equal to E but for startTime = splitTime, duration = E.startTime +
\* E.duration - splitTime, trimStart = E.trimStart + the left duration, and an
\* id that no track and no element of the scene carried and that no other
\* element carries afterwards.  The durations sum to E.duration, the left part
\* keeps E.trimStart and the right part E.trimEnd.  Nothing else changes.
C1_SplitReplacesByTwo ==
  LET pre == GetTracks
  IN \A refs \in RefInputs(pre), t \in SplitTimes :
       LET post == splitElements(pre, counter, listeners, refs, t, None).tracks
       IN /\ Len(post) = Len(pre)
          /\ \A ti \in 1..Len(pre) :
               LET pe == pre[ti].elements
                   qe == post[ti].elements
                   H == HitPositions(pre, refs, t, ti)
               IN /\ post[ti] = [pre[ti] EXCEPT !.elements = qe]
                  /\ Len(qe) = Len(pe) + Cardinality(H)
                  /\ \A j \in 1..Len(pe) :
                       LET k == j + Cardinality({h \in H : h < j})
                           E == pe[j]
                       IN IF j \notin H THEN qe[k] = E
                          ELSE LET L == qe[k]
                                   R == qe[k + 1]
                               IN /\ L = [E EXCEPT !.duration = t - E.startTime]
                                  /\ R = [E EXCEPT
                                            !.id = R.id,
                                            !.startTime = t,
                                            !.duration = E.startTime + E.duration - t,
                                            !.trimStart = E.trimStart + (t - E.startTime)]
                                  /\ L.duration + R.duration = E.duration
                                  /\ L.duration > 0 /\ R.duration > 0
                                  /\ L.trimStart = E.trimStart
                                  /\ R.trimEnd = E.trimEnd
                                  /\ R.id \notin IdsIn(pre)
                                  /\ \A p \in Positions(post) :
                                       p # <<ti, k + 1>> =>
                                         post[p[1]].elements[p[2]].id # R.id

\* A state reached by a splitElements call without retainSide that split an
\* element: a part ending where the next part, with a generated id, starts.
C1_Witness ==
  /\ last = Called("splitElements", "split", None)
  /\ \E p \in Positions(GetTracks) :
       LET els == GetTracks[p[1]].elements
       IN /\ p[2] < Len(els)
          /\ els[p[2]].startTime + els[p[2]].duration = els[p[2] + 1].startTime
          /\ els[p[2] + 1].trimStart = els[p[2]].trimStart + els[p[2]].duration
          /\ els[p[2] + 1].id > 0

\* C2: for every retainSide, a track on which splitElements finds no
\* referenced element with splitTime strictly inside (the split time is at or
\* beyond the element's boundary, or the reference names a missing track or a
\* missing element) keeps its element list, and the track list keeps its
\* length.
C2_SplitOutsideChangesNothing ==
  LET pre == GetTracks
  IN \A refs \in RefInputs(pre), t \in SplitTimes, retainSide \in RetainSides :
       LET post == splitElements(pre, counter, listeners, refs, t, retainSide).tracks
       IN /\ Len(post) = Len(pre)
          /\ \A ti \in 1..Len(pre) :
               HitPositions(pre, refs, t, ti) = {} => post[ti] = pre[ti]

\* A state reached by a splitElements call none of whose references was split,
\* one of them naming a present element with the split time at or beyond its
\* boundary.
C2_Witness ==
  /\ last = Called("splitElements", "outside", "")
  /\ \E p \in Positions(GetTracks), t \in SplitTimes :
       ~StrictlyInside(GetTracks[p[1]].elements[p[2]], t)

\* C3: splitElements with retainSide set generates no id and keeps every
\* track's number of elements; a referenced element E with splitTime strictly
\* inside keeps its place and its id and changes, with "left", only its
\* duration, to splitTime - E.startTime, and with "right" its startTime, to
\* splitTime, its duration, to E's end - splitTime, and its trimStart, to
\* E.trimStart + (splitTime - E.startTime), so that its end time is E's.
\* Every other element is unchanged.
C3_SplitRetainTruncatesInPlace ==
  LET pre == GetTracks
  IN \A refs \in RefInputs(pre), t \in SplitTimes, retainSide \in {"left", "right"} :
       LET r == splitElements(pre, counter, listeners, refs, t, retainSide)
           post == r.tracks
       IN /\ r.counter = counter
          /\ Len(post) = Len(pre)
          /\ \A ti \in 1..Len(pre) :
               LET pe == pre[ti].elements
                   qe == post[ti].elements
                   H == HitPositions(pre, refs, t, ti)
               IN /\ Len(qe) = Len(pe)
                  /\ \A j \in 1..Len(pe) :
                       LET E == pe[j]
                       IN IF j \notin H THEN qe[j] = E
                          ELSE /\ qe[j].id = E.id
                               /\ retainSide = "left" =>
                                    qe[j] = [E EXCEPT !.duration = t - E.startTime]
                               /\ retainSide = "right" =>
                                    /\ qe[j] = [E EXCEPT
                                                  !.startTime = t,
                                                  !.duration = E.startTime + E.duration - t,
                                                  !.trimStart = E.trimStart + (t - E.startTime)]
                                    /\ qe[j].startTime + qe[j].duration =
                                         E.startTime + E.duration

\* A state reached by a splitElements call that retained the right side of an
\* element: the element now starts after the start time callers insert with.
C3_Witness ==
  /\ last = Called("splitElements", "split", "right")
  /\ \E p \in Positions(GetTracks), tm \in Timings :
       LET el == GetTracks[p[1]].elements[p[2]]
       IN /\ el.startTime > tm.startTime
          /\ el.trimStart = tm.trimStart + (el.startTime - tm.startTime)

\* ----------------------------------------------- the timeline's invariants

\* The element types a track of the given type is meant to hold.
CompatibleTypes(trackType) ==
  CASE trackType = "video" -> {"video", "image"}
    [] trackType = "audio" -> {"audio"}
    [] trackType = "text" -> {"text"}
    [] trackType = "sticker" -> {"sticker"}
    [] OTHER -> {}

\* C8: in every reachable state every element of the active scene has a type
\* compatible with its track's: video or image on a video track, audio on an
\* audio track, text on a text track, sticker on a sticker track.
C8_TypeCompatible ==
  \A p \in Positions(GetTracks) :
    GetTracks[p[1]].elements[p[2]].type \in CompatibleTypes(GetTracks[p[1]].type)

\* C9: in every reachable state the track ids of the active scene are pairwise
\* distinct, the element ids of the scene are pairwise distinct, and the id
\* generateUUID returns next differs from every id it returned before (the
\* ids 1..counter).
C9_IdsUnique ==
  /\ \A i, j \in 1..Len(GetTracks) : i # j => GetTracks[i].id # GetTracks[j].id
  /\ \A p, q \in Positions(GetTracks) :
       p # q => GetTracks[p[1]].elements[p[2]].id # GetTracks[q[1]].elements[q[2]].id
  /\ GenerateUUID(counter).id \notin 1..counter

\* The notification rounds of a call r: there is exactly one, it reaches every
\* subscribed listener, and each listener observes the tracks as the call
\* leaves them.
NotifiedOnceAfterAll(r) ==
  /\ Len(r.log) = 1
  /\ DOMAIN r.log[1] = listeners
  /\ \A l \in listeners : r.log[1][l] = r.tracks

\* C10: whenever a scene is active, every addTrack, insertElement,
\* deleteElements and splitElements call invokes each listener exactly once,
\* after all of the call's mutations.
C10_NotifiedOnceAfterAll ==
  GetActiveScene(scenes, currentSceneId) # 0 =>
    LET pre == GetTracks
    IN /\ \A type \in EditedTrackTypes, index \in TrackIndexes :
            NotifiedOnceAfterAll(addTrack(pre, counter, listeners, type, index))
       /\ \A element \in ElementInputs(EditedElementTypes),
             placement \in PlacementInputs(pre) :
            NotifiedOnceAfterAll(insertElement(pre, counter, listeners, element, placement))
       /\ \A refs \in RefInputs(pre) :
            NotifiedOnceAfterAll(deleteElements(pre, counter, listeners, refs))
       /\ \A refs \in RefInputs(pre), t \in SplitTimes, retainSide \in RetainSides :
            NotifiedOnceAfterAll(splitElements(pre, counter, listeners, refs, t, retainSide))

\* ------------------------------------------------- notification: properties

\* Every listener subscribed with EditorCore.subscribe is called in one of the
\* rounds of EditorCore.notify in log.
CoreListenersCalled(log) ==
  \A l \in listeners : \E k \in 1..Len(log) : l \in DOMAIN log[k]

\* The outcomes of the PlaybackManager calls that can be made now and return.
PlaybackOutcomes ==
  LET all == { play(Playback, now, react) : react \in ReactionInputs } \cup
             { pause(Playback, react) : react \in ReactionInputs } \cup
             { toggle(Playback, now, react) : react \in ReactionInputs } \cup
             { seek(Playback, time, react) : time \in SeekTimes, react \in ReactionInputs } \cup
             { tick([Playback EXCEPT !.frames = @ \ {h}], now, react) :
                 h \in frames, react \in ReactionInputs }
  IN { r \in all : ~r.diverged }

\* C11: a listener subscribed with EditorCore.subscribe only is called on
\* every state change: whenever play, pause, toggle, seek or a tick changes
\* playing or currentTime, and whenever addTrack, insertElement,
\* deleteElements or splitElements changes the tracks of the active scene,
\* every such listener is called.
C11_CoreListenersSeeEveryChange ==
  /\ \A r \in PlaybackOutcomes :
       (r.pb.playing # playing \/ r.pb.currentTime # currentTime) =>
         CoreListenersCalled(r.log)
  /\ GetActiveScene(scenes, currentSceneId) # 0 =>
       LET pre == GetTracks
           Seen(r) == r.tracks # pre => CoreListenersCalled(r.log)
       IN /\ \A type \in EditedTrackTypes, index \in TrackIndexes :
               Seen(addTrack(pre, counter, listeners, type, index))
          /\ \A element \in ElementInputs(EditedElementTypes),
                placement \in PlacementInputs(pre) :
               Seen(insertElement(pre, counter, listeners, element, placement))
          /\ \A refs \in RefInputs(pre) :
               Seen(deleteElements(pre, counter, listeners, refs))
          /\ \A refs \in RefInputs(pre), t \in SplitTimes, retainSide \in RetainSides :
               Seen(splitElements(pre, counter, listeners, refs, t, retainSide))

\* C12: one fan-out calls exactly the listeners subscribed when it starts,
\* each once and in subscription order, whatever a listener subscribes or
\* unsubscribes while it is called, and the fan-out ends.
C12_FanOutOnSnapshot ==
  \A react \in ReactionInputs :
    LET f == FanOut(playbackListeners, react)
    IN ~f.diverged /\ f.invoked = playbackListeners

\* ---------------------------------------- saving, deleting, creating: properties

\* What storage holds for project id, as storageService.loadProject returns it
\* (<<>>: nothing).
StoredProject(id) ==
  IF id \in DOMAIN storedItems THEN <<DeserializeProject(storedItems[id])>> ELSE <<>>

\* The stored project with the active id has the scenes of the scene registry
\* and the duration computed from them, and the active project and the entry
\* of savedProjects for that id carry the stored metadata.
SavedAsItIs ==
  /\ active # <<>>
  /\ LET id == active[1].metadata.id
         stored == StoredProject(id)
     IN /\ stored # <<>>
        /\ stored[1].scenes = scenes
        /\ stored[1].metadata.duration = GetProjectDurationFromScenes(scenes)
        /\ active[1].metadata = stored[1].metadata
        /\ \E i \in 1..Len(savedProjects) : savedProjects[i] = stored[1].metadata
        /\ \A i \in 1..Len(savedProjects) :
             savedProjects[i].id = id => savedProjects[i] = stored[1].metadata

\* C13: a saveCurrentProject call made with no active project writes nothing
\* and changes nothing; a call made with one, once it has completed, leaves
\* the stored project of the active id with the scenes the scene registry
\* holds and the duration computed from them, and the active project and the
\* savedProjects entry with the stored metadata.
C13_SaveStoresCurrentScenes ==
  [][ /\ (last'.op = "saveCurrentProject" /\ last'.did = "no-project") =>
           UNCHANGED <<counter, scenes, currentSceneId, listeners, projectVars>>
      /\ (last'.op = "saveCurrentProject" /\ last'.did = "resolved") => SavedAsItIs'
    ]_vars

\* The search queries and sort options of the project list screen.
SearchQueries == {"", " ", "p", "P", "q"}
SortOptions == {"", "name-asc", "name-desc", "duration-asc", "duration-desc",
                "createdAt-asc", "createdAt-desc", "updatedAt-asc", "updatedAt-desc"}

\* The queries and options other callers pass: with spaces around or inside,
\* in upper case, of two letters; without a direction, with another direction,
\* with another key.
OtherQueries == {"  ", " p", "Q ", "pQ", "q p"}
OtherSortOptions == {"name", "updatedAt", "name-up", "size-asc", "size-desc", "-asc"}

\* The names projects are listed under.
ListedNames == {"p", "q", "P", "Pq", "q p"}

\* The first and the other characters of a string that is not empty.
First(x) == SubSeq(x, 1, 1)
Rest(x) == SubSeq(x, 2, Len(x))

\* String.prototype.trim
RECURSIVE TrimLeft(_)
TrimLeft(x) == IF x # "" /\ First(x) = " " THEN TrimLeft(Rest(x)) ELSE x
RECURSIVE TrimRight(_)
TrimRight(x) ==
  IF x # "" /\ SubSeq(x, Len(x), Len(x)) = " "
  THEN TrimRight(SubSeq(x, 1, Len(x) - 1)) ELSE x
Trim(q) == TrimRight(TrimLeft(q))

\* String.prototype.toLowerCase on the characters of the names and queries.
LowerCaseOf(c) == CASE c = "P" -> "p" [] c = "Q" -> "q" [] OTHER -> c
RECURSIVE ToLowerCase(_)
ToLowerCase(x) == IF x = "" THEN "" ELSE LowerCaseOf(First(x)) \o ToLowerCase(Rest(x))

\* String.prototype.includes
StringIncludes(x, q) ==
  \E i \in 1..(Len(x) - Len(q) + 1) : SubSeq(x, i, i + Len(q) - 1) = q

\* String.prototype.localeCompare on the names: by letter first, a space
\* before p before q, then, all letters being equal, lower case before upper.
CharRank(c) == CASE c = " " -> 0 [] c \in {"p", "P"} -> 1 [] c \in {"q", "Q"} -> 2
                 [] OTHER -> 3
CaseRank(c) == IF c \in {"P", "Q"} THEN 1 ELSE 0
RECURSIVE CompareLetters(_, _)
CompareLetters(a, b) ==
  IF a = "" THEN (IF b = "" THEN 0 ELSE 0 - 1)
  ELSE IF b = "" THEN 1
  ELSE LET d == CharRank(First(a)) - CharRank(First(b))
       IN IF d # 0 THEN d ELSE CompareLetters(Rest(a), Rest(b))
RECURSIVE CompareCases(_, _)
CompareCases(a, b) ==
  IF a = "" \/ b = "" THEN 0
  ELSE LET d == CaseRank(First(a)) - CaseRank(First(b))
       IN IF d # 0 THEN d ELSE CompareCases(Rest(a), Rest(b))
LocaleCompare(a, b) ==
  LET d == CompareLetters(a, b) IN IF d # 0 THEN d ELSE CompareCases(a, b)

\* sortOption.split("-"): the parts between the dashes, part being the one
\* read so far.
RECURSIVE SplitFrom(_, _)
SplitFrom(x, part) ==
  IF x = "" THEN <<part>>
  ELSE IF First(x) = "-" THEN <<part>> \o SplitFrom(Rest(x), "")
  ELSE SplitFrom(Rest(x), part \o First(x))
Split(x) == SplitFrom(x, "")

\* The strings below are computed once for the names, queries and options
\* above, and on the spot for any other.
SplitOnce == [x \in SortOptions \cup OtherSortOptions |-> Split(x)]
TrimOnce == [x \in SearchQueries \cup OtherQueries |-> Trim(x)]
ToLowerCaseOnce ==
  [x \in SearchQueries \cup OtherQueries \cup ListedNames |-> ToLowerCase(x)]
SplitOf(x) == IF x \in DOMAIN SplitOnce THEN SplitOnce[x] ELSE Split(x)
TrimOf(x) == IF x \in DOMAIN TrimOnce THEN TrimOnce[x] ELSE Trim(x)
ToLowerCaseOf(x) ==
  IF x \in DOMAIN ToLowerCaseOnce THEN ToLowerCaseOnce[x] ELSE ToLowerCase(x)

\* const [sortKey, sortOrder] = parts: sortOrder is undefined (here
\* "undefined", which no part is) when there is no second part.
SortKey(parts) == parts[1]
SortOrder(parts) == IF Len(parts) >= 2 THEN parts[2] ELSE "undefined"

\* The comparator of getFilteredAndSortedProjects with every sortOrder taken
\* as given, "asc" or not.
Compare_OrderIgnored(a, b, sortKey, sortOrder) ==
  CASE sortKey = "name" -> LocaleCompare(a.name, b.name)
    [] sortKey = "duration" -> a.duration - b.duration
    [] sortKey = "createdAt" -> a.createdAt.time - b.createdAt.time
    [] OTHER -> a.updatedAt.time - b.updatedAt.time

\* The comparator of getFilteredAndSortedProjects.
Compare(a, b, sortKey, sortOrder) ==
  LET cmp == CASE sortKey = "name" -> LocaleCompare(a.name, b.name)
               [] sortKey = "duration" -> a.duration - b.duration
               [] sortKey = "createdAt" -> a.createdAt.time - b.createdAt.time
               [] OTHER -> a.updatedAt.time - b.updatedAt.time
  IN IF sortOrder = "asc" THEN cmp ELSE 0 - cmp

\* Array.prototype.sort, which is stable: x goes behind every entry that does
\* not compare greater.
RECURSIVE InsertSorted(_, _, _, _)
InsertSorted(sorted, x, sortKey, sortOrder) ==
  IF sorted = <<>> THEN <<x>>
  ELSE IF Compare(Head(sorted), x, sortKey, sortOrder) <= 0
       THEN <<Head(sorted)>> \o InsertSorted(Tail(sorted), x, sortKey, sortOrder)
       ELSE <<x>> \o sorted

RECURSIVE SortBy(_, _, _)
SortBy(projects, sortKey, sortOrder) ==
  IF projects = <<>> THEN <<>>
  ELSE InsertSorted(SortBy(SubSeq(projects, 1, Len(projects) - 1), sortKey, sortOrder),
                    projects[Len(projects)], sortKey, sortOrder)

\* Array.prototype.filter by name on the lower-case query.
RECURSIVE FilterByName(_, _)
FilterByName(projects, q) ==
  IF projects = <<>> THEN <<>>
  ELSE IF StringIncludes(ToLowerCaseOf(Head(projects).name), q)
       THEN <<Head(projects)>> \o FilterByName(Tail(projects), q)
       ELSE FilterByName(Tail(projects), q)

\* getFilteredAndSortedProjects sorting this.savedProjects itself when it
\* does not filter.
getFilteredAndSortedProjects_InPlace(saved, searchQuery, sortOption) ==
  LET parts == SplitOf(sortOption)
      sortKey == SortKey(parts)
      sortOrder == SortOrder(parts)
  IN IF TrimOf(searchQuery) # ""
     THEN [projects |-> SortBy(FilterByName(saved, ToLowerCaseOf(searchQuery)),
                               sortKey, sortOrder),
           savedProjects |-> saved]
     ELSE [projects |-> SortBy(saved, sortKey, sortOrder),
           savedProjects |-> SortBy(saved, sortKey, sortOrder)]

\* getFilteredAndSortedProjects: the list it returns (projects) and
\* this.savedProjects after it.  The list is a copy of this.savedProjects,
\* filtered into another list when the trimmed query is not empty, and sorted.
getFilteredAndSortedProjects(saved, searchQuery, sortOption) ==
  LET copy == saved
      projects == IF TrimOf(searchQuery) # ""
                  THEN FilterByName(copy, ToLowerCaseOf(searchQuery))
                  ELSE copy
      parts == SplitOf(sortOption)
  IN [projects |-> SortBy(projects, SortKey(parts), SortOrder(parts)),
      savedProjects |-> saved]

\* What getFilteredAndSortedProjects returns.
GetFilteredAndSortedProjects(saved, searchQuery, sortOption) ==
  getFilteredAndSortedProjects(saved, searchQuery, sortOption).projects

\* The entries the metadata index is filled from when its listing is examined:
\* names that differ by case only or contain another, one name twice, equal
\* and different durations and dates, no date of creation after the update.
ListedEntries ==
  { [id |-> 1, name |-> "p", duration |-> 0, createdAt |-> [time |-> 0],
     updatedAt |-> [time |-> 2]],
    [id |-> 2, name |-> "Pq", duration |-> 2, createdAt |-> [time |-> 1],
     updatedAt |-> [time |-> 1]],
    [id |-> 3, name |-> "q", duration |-> 2, createdAt |-> [time |-> 0],
     updatedAt |-> [time |-> 0]],
    [id |-> 4, name |-> "P", duration |-> 1, createdAt |-> [time |-> 2],
     updatedAt |-> [time |-> 2]],
    [id |-> 5, name |-> "q p", duration |-> 3, createdAt |-> [time |-> 1],
     updatedAt |-> [time |-> 3]] }

\* The metadata indexes examined: up to MaxListed of these entries, no project
\* twice, in any order.
CacheInputs ==
  UNION { { c \in [1..n -> ListedEntries] : \A i, j \in 1..n : c[i] = c[j] => i = j } :
          n \in 0..MaxListed }

\* The editor with some metadata index loaded.
ListingInit ==
  /\ counter = 0
  /\ scenes = <<>>
  /\ currentSceneId = NoId
  /\ listeners = ListenerIds
  /\ active = <<>>
  /\ savedProjects \in CacheInputs
  /\ isLoading = FALSE
  /\ isInitialized = FALSE
  /\ assets = <<>>
  /\ assetsAdded = 0
  /\ selected = <<>>
  /\ storedItems = <<>>
  /\ storedIndex = <<>>
  /\ pending = <<>>
  /\ currentTime = 0
  /\ playing = FALSE
  /\ animationFrame = 0
  /\ lastTimestamp = 0
  /\ playbackListeners = <<>>
  /\ frames = {}
  /\ now = 0
  /\ last = Called("new", "", "")

\* A call of getFilteredAndSortedProjects; what it returned is kept in last.
ListProjects(searchQuery, sortOption) ==
  LET r == getFilteredAndSortedProjects(savedProjects, searchQuery, sortOption)
  IN /\ savedProjects' = r.savedProjects
     /\ last' = [Called("getFilteredAndSortedProjects", "", sortOption)
                   EXCEPT !.call = <<[searchQuery |-> searchQuery,
                                      projects |-> r.projects]>>]
     /\ UNCHANGED <<counter, scenes, currentSceneId, listeners, playbackVars, active,
                    isLoading, isInitialized, assets, assetsAdded, selected, storedItems, storedIndex,
                    pending>>

ListingNext ==
  \E searchQuery \in SearchQueries \cup OtherQueries,
     sortOption \in SortOptions \cup OtherSortOptions :
    ListProjects(searchQuery, sortOption)

\* The project list being filtered and sorted.
ListingSpec == ListingInit /\ [][ListingNext]_vars

\* The ids argument of the deleteProjects call that has just completed.
DeletedIds(op) == IF op.call = <<>> THEN <<>> ELSE op.call[1].all

\* C14: when deleteProjects completes with the id of the active project among
\* its ids, there is no active project and no asset or scene is left; when it
\* completes otherwise, the active project, the assets and the scenes are as
\* they were.  In both cases getSavedProjects and getFilteredAndSortedProjects
\* return no entry with one of the ids.
C14_DeleteClearsActive ==
  [][ (last'.op = "deleteProjects" /\ last'.did \in {"deleted-active", "deleted"}) =>
        LET ids == DeletedIds(last')
        IN /\ IF active # <<>> /\ Includes(ids, active[1].metadata.id)
              THEN active' = <<>> /\ assets' = <<>> /\ scenes' = <<>>
              ELSE UNCHANGED <<active, assets, scenes>>
           /\ \A i \in 1..Len(savedProjects') : ~Includes(ids, savedProjects'[i].id)
           /\ \A searchQuery \in SearchQueries, sortOption \in SortOptions :
                LET listed == GetFilteredAndSortedProjects(savedProjects', searchQuery,
                                                           sortOption)
                IN \A i \in 1..Len(listed) : ~Includes(ids, listed[i].id)
    ]_vars

\* deleteProjects has completed for the active project, which had a scene,
\* and another project is still listed.
C14_Witness ==
  /\ last.op = "deleteProjects"
  /\ last.did = "deleted-active"
  /\ last.call # <<>>
  /\ last.call[1].before.scenes # {}
  /\ active = <<>>
  /\ Len(savedProjects) = 1

\* C15: a loadProject call made right after createNewProject returned, for
\* the id it returned, succeeds: the active project is that project, with one
\* scene, which is the active scene and has one video track without elements,
\* and duration 0, and its metadata is the first entry of savedProjects.
C15_CreateThenLoad ==
  (last.op = "loadProject" /\ last.mode = "after-create" /\ last.did # "fetching") =>
    /\ last.did = "loaded"
    /\ active # <<>>
    /\ active[1].metadata.id = last.call[1].id
    /\ active[1].metadata.duration = 0
    /\ Len(active[1].scenes) = 1
    /\ scenes = active[1].scenes
    /\ GetActiveScene(scenes, currentSceneId) = 1
    /\ Len(scenes[1].tracks) = 1
    /\ scenes[1].tracks[1].type = "video"
    /\ scenes[1].tracks[1].elements = <<>>
    /\ GetTotalDuration = 0
    /\ savedProjects # <<>>
    /\ savedProjects[1] = active[1].metadata

\* createNewProject has returned and the loadProject call that followed has
\* completed, and another project had been created before.
C15_Witness ==
  /\ last.op = "loadProject"
  /\ last.mode = "after-create"
  /\ last.did = "loaded"
  /\ Len(savedProjects) = 2

\* ------------------------------------------------- the timeline: properties

\* The end times of the elements of the active scene.
EndTimes ==
  { GetTracks[p[1]].elements[p[2]].startTime + GetTracks[p[1]].elements[p[2]].duration :
      p \in { q \in (1..Len(GetTracks)) \X (1..MaxElements + 2) :
                q[2] <= Len(GetTracks[q[1]].elements) } }

\* C16: in every state, getTotalDuration() is the largest startTime + duration
\* of the elements of the active scene, and 0 when it has no element or no
\* scene is active.
C16_TotalDurationIsMaxEnd ==
  /\ EndTimes # {} => /\ GetTotalDuration \in EndTimes
                      /\ \A end \in EndTimes : end <= GetTotalDuration
  /\ EndTimes = {} => GetTotalDuration = 0
  /\ GetActiveScene(scenes, currentSceneId) = 0 => GetTotalDuration = 0

\* Two elements that end at different times, the one that ends later first.
C16_Witness ==
  /\ last.op \in {"addTrack", "insertElement", "deleteElements", "splitElements"}
  /\ Len(GetTracks) >= 1
  /\ Len(GetTracks[1].elements) = 2
  /\ GetTracks[1].elements[1].startTime + GetTracks[1].elements[1].duration = 3
  /\ GetTracks[1].elements[2].startTime + GetTracks[1].elements[2].duration = 2
  /\ GetTotalDuration = 3

\* C17: whenever a scene is active, deleteElements called a second time with
\* the same references leaves the tracks as the first call left them, and a
\* call whose references name a missing track or a missing element leaves the
\* tracks as they are.
C17_DeleteIdempotent ==
  GetActiveScene(scenes, currentSceneId) # 0 =>
    LET pre == GetTracks
    IN /\ \A refs \in RefInputs(pre) :
            LET once == deleteElements(pre, counter, listeners, refs)
                twice == deleteElements(once.tracks, once.counter, listeners, refs)
            IN twice.tracks = once.tracks
       /\ \A r1 \in AbsentRefs(pre), r2 \in AbsentRefs(pre) :
            /\ deleteElements(pre, counter, listeners, <<r1>>).tracks = pre
            /\ deleteElements(pre, counter, listeners, <<r1, r2>>).tracks = pre

\* deleteElements has removed an element and left another one.
C17_Witness ==
  /\ last = Called("deleteElements", "removed", "")
  /\ CountElements(GetTracks) >= 1

TimelineOps == {"addTrack", "insertElement", "deleteElements", "splitElements"}

\* The outcome r of a call made without an active scene: no listener is
\* called, no id is generated, and what addTrack returns is the empty id.
NothingDone(r) == r.log = <<>> /\ r.counter = counter /\ r.ret = NoId

\* C18: when no scene is active, addTrack, insertElement, deleteElements and
\* splitElements call no listener and change nothing of the scenes, the id
\* counter, the listeners, the project, the media, the selection or the
\* playback, and addTrack returns the empty id.
C18_NoSceneNoOp ==
  [][ GetActiveScene(scenes, currentSceneId) = 0 =>
        /\ \A type \in EditedTrackTypes, index \in TrackIndexes :
             NothingDone(OnActiveScene(addTrack(GetTracks, counter, listeners, type, index)))
        /\ \A element \in ElementInputs(EditedElementTypes),
              placement \in PlacementInputs(GetTracks) :
             NothingDone(OnActiveScene(insertElement(GetTracks, counter, listeners,
                                                    element, placement)))
        /\ \A refs \in RefInputs(GetTracks) :
             NothingDone(OnActiveScene(deleteElements(GetTracks, counter, listeners, refs)))
        /\ \A refs \in RefInputs(GetTracks), t \in SplitTimes, retainSide \in RetainSides :
             NothingDone(OnActiveScene(splitElements(GetTracks, counter, listeners, refs,
                                                    t, retainSide)))
        /\ last'.op \in TimelineOps =>
             UNCHANGED <<counter, scenes, currentSceneId, listeners, projectVars,
                         playbackVars>>
    ]_vars

\* addTrack has been called with no scene active, after a scene had been
\* there and ids had been generated for it.
C18_Witness ==
  /\ last = Called("addTrack", "no-scene", "")
  /\ GetActiveScene(scenes, currentSceneId) = 0
  /\ counter >= 1

\* The track type an element type is placed on.
MappedType(elementType) == IF elementType \in {"video", "image"} THEN "video" ELSE elementType

\* el is the element a caller passed, with an id if it had none.
IsInserted(el, element) ==
  /\ el.id # NoId
  /\ element.id # NoId => el.id = element.id
  /\ [el EXCEPT !.id = NoId] = [element EXCEPT !.id = NoId]

\* C19: whenever a scene is active, insertElement with auto placement appends
\* the element to the first track of the type its type maps to (video and
\* image to video, audio, text and sticker to their own) and changes nothing
\* else; when there is no such track, it appends one new track of that type
\* to the scene, holding the element only, and leaves the other tracks as
\* they are.  Either way one element is added.
C19_AutoPlacement ==
  GetActiveScene(scenes, currentSceneId) # 0 =>
    \A element \in ElementInputs(ElementTypes) :
      LET pre == GetTracks
          post == insertElement(pre, counter, listeners, element, [mode |-> "auto"]).tracks
          matching == { i \in 1..Len(pre) : pre[i].type = MappedType(element.type) }
      IN /\ CountElements(post) = CountElements(pre) + 1
         /\ IF matching # {}
            THEN LET m == CHOOSE i \in matching : \A j \in matching : i <= j
                     n == Len(pre[m].elements)
                 IN /\ Len(post) = Len(pre)
                    /\ \A i \in 1..Len(pre) : i # m => post[i] = pre[i]
                    /\ [post[m] EXCEPT !.elements = pre[m].elements] = pre[m]
                    /\ Len(post[m].elements) = n + 1
                    /\ SubSeq(post[m].elements, 1, n) = pre[m].elements
                    /\ IsInserted(post[m].elements[n + 1], element)
            ELSE /\ Len(post) = Len(pre) + 1
                 /\ SubSeq(post, 1, Len(pre)) = pre
                 /\ post[Len(post)].type = MappedType(element.type)
                 /\ Len(post[Len(post)].elements) = 1
                 /\ IsInserted(post[Len(post)].elements[1], element)

\* insertElement with auto placement has put an element on the first of two
\* tracks of the same type.
C19_Witness ==
  /\ last = Called("insertElement", "auto-match", "")
  /\ Len(GetTracks) = 2
  /\ GetTracks[1].type = GetTracks[2].type
  /\ GetTracks[1].elements # <<>>
  /\ GetTracks[2].elements = <<>>

\* Track ids that name no track of the active scene.
AbsentTrackIds == {MissingTrack, NoId} \cup (CallerIds \ TrackIdsOf(GetTracks))

\* C20: whenever a scene is active, insertElement with explicit placement on
\* a track id that names no track of the scene leaves the tracks and their
\* elements as they are: no element is inserted and no track is created.
C20_ExplicitMissingTrack ==
  GetActiveScene(scenes, currentSceneId) # 0 =>
    \A element \in ElementInputs(ElementTypes), trackId \in AbsentTrackIds :
      insertElement(GetTracks, counter, listeners, element,
                    [mode |-> "explicit", trackId |-> trackId]).tracks = GetTracks

\* insertElement has been called with explicit placement on a missing track
\* while the scene had a track with an element.
C20_Witness ==
  /\ last = Called("insertElement", "no-track", "")
  /\ Len(GetTracks) >= 1
  /\ GetTracks[1].elements # <<>>

\* ------------------------------------------------ the playback clock: properties

\* The listeners that make no PlaybackManager call when they are called.
QuietReactions ==
  { react \in ReactionInputs : \A l \in ListenerIds : react[l].kind # "pause" }

\* The call with outcome r has called every listener that is subscribed before
\* and after it.
ClockListenersCalled(r) ==
  \A l \in ListenerIds :
    (Includes(playbackListeners, l) /\ Includes(r.pb.listeners, l)) =>
      Includes(r.invoked, l)

\* C21: play() on a playing clock and pause() on a paused one change nothing
\* and call no listener; play() on a paused clock leaves it playing, pause()
\* on a playing clock leaves it paused, toggle() leaves it in the other state,
\* and each of these three calls the clock's listeners.
C21_TwoStateClock ==
  \A react \in QuietReactions :
    LET played == play(Playback, now, react)
        paused == pause(Playback, react)
        toggled == toggle(Playback, now, react)
    IN /\ playing => played.pb = Playback /\ played.invoked = <<>>
       /\ ~playing => paused.pb = Playback /\ paused.invoked = <<>>
       /\ (~playing /\ ~played.diverged) =>
            played.pb.playing /\ ClockListenersCalled(played)
       /\ (playing /\ ~paused.diverged) =>
            ~paused.pb.playing /\ ClockListenersCalled(paused)
       /\ ~toggled.diverged =>
            toggled.pb.playing = ~playing /\ ClockListenersCalled(toggled)

\* toggle() has paused a playing clock and called its two listeners.
C21_Witness ==
  /\ last = Called("toggle", "notified", "")
  /\ ~playing
  /\ Len(playbackListeners) = 2

\* C22: currentTime is never negative, and seek(time) sets it to time, or to
\* 0 for a negative time, on a playing and on a paused clock alike, leaving
\* the playing flag, the pending frames and the timestamp of the last tick as
\* they are.
C22_SeekClamps ==
  /\ currentTime >= 0
  /\ \A time \in SeekTimes, react \in QuietReactions :
       LET r == seek(Playback, time, react)
       IN ~r.diverged =>
            /\ r.pb.currentTime = IF time < 0 THEN 0 ELSE time
            /\ r.pb.playing = playing
            /\ r.pb.frames = frames
            /\ r.pb.animationFrame = animationFrame
            /\ r.pb.lastTimestamp = lastTimestamp

\* seek has been called on a playing clock with a tick pending, after time
\* had passed.
C22_Witness ==
  /\ last.op = "seek"
  /\ playing
  /\ animationFrame \in frames
  /\ now > lastTimestamp
  /\ currentTime = 1

\* C23: no tick is pending while the clock is paused, and at most one tick is
\* pending at any time, whatever play, pause, toggle, seek and tick calls were
\* made and whatever the listeners did when called, a call of pause()
\* included.
C23_NoStaleTick ==
  /\ ~playing => frames = {}
  /\ Cardinality(frames) <= 1

\* ---------------------------------------------------- bookmarks: properties

\* The bookmarks of the active scene, if there is one.
ActiveBookmarks ==
  LET ai == GetActiveScene(scenes, currentSceneId)
  IN IF ai = 0 THEN <<>> ELSE scenes[ai].bookmarks

\* C24: whenever a scene is active, toggleBookmark(t) called twice gives back
\* the bookmark sequence as it was, and after the first call isBookmarked(t)
\* is true exactly when it was false before.
C24_ToggleTwice ==
  GetActiveScene(scenes, currentSceneId) # 0 =>
    \A time \in BookmarkTimes :
      LET ai == GetActiveScene(scenes, currentSceneId)
          once == [scenes EXCEPT ![ai].bookmarks = toggleBookmark(@, time)]
          twice == [once EXCEPT ![ai].bookmarks = toggleBookmark(@, time)]
      IN /\ twice = scenes
         /\ isBookmarked(once, currentSceneId, time) =
              ~isBookmarked(scenes, currentSceneId, time)

\* toggleBookmark has removed a bookmark from between two others.
C24_Witness ==
  /\ last = Called("toggleBookmark", "removed", "")
  /\ ActiveBookmarks = <<1, 3>>

\* s is strictly ascending.
StrictlyAscending(s) == \A i \in 1..(Len(s) - 1) : s[i] < s[i + 1]

EntriesFor(saved, id) == { i \in 1..Len(saved) : saved[i].id = id }

\* The suspended call the step now taken is a storage step of, taking it from
\* the storage call `from` to the storage call `to`.
Stepped(k, op, from, to) ==
  /\ k \in 1..Len(pending) /\ Len(pending') = Len(pending)
  /\ pending[k].op = op /\ pending[k].pc = from /\ pending'[k].pc = to

\* C26 as stated: every renameProject call, whatever storage holds, ends with
\* the metadata index holding exactly one entry for id, under the new name.
C26_AlwaysOneEntry ==
  [][ (last'.op = "renameProject" /\ last'.did \in {"resolved", "not-found"}) =>
        LET call == last'.call[1]
            at == EntriesFor(savedProjects', call.id)
        IN /\ Cardinality(at) = 1
           /\ \A i \in at : savedProjects'[i].name = call.name ]_vars

\* C26 for what the code does: when storage holds no project under id,
\* renameProject returns with storage, the active project and the metadata
\* index as they were.  When it holds one, the call goes on with that project
\* under the new name and an updatedAt read from the clock, stores its
\* serialization under the project key, and at its end makes it the active
\* project if and only if the active project has that id, and leaves exactly
\* one entry for id in the metadata index, which is the renamed metadata.
C26_RenameProject ==
  [][ /\ \A k \in 1..MaxPending :
            /\ Stepped(k, "renameProject", "getItem", "setItem") =>
                 /\ pending[k].id \in DOMAIN storedItems
                 /\ LET stored == DeserializeProject(storedItems[pending[k].id])
                        updated == pending'[k].project[1]
                    IN /\ updated.metadata.name = pending[k].name
                       /\ updated.metadata.updatedAt = [time |-> now]
                       /\ updated.metadata.id = stored.metadata.id
                       /\ updated.metadata.createdAt = stored.metadata.createdAt
                       /\ updated.metadata.duration = stored.metadata.duration
                       /\ updated.scenes = stored.scenes
                       /\ updated.currentSceneId = stored.currentSceneId
                 /\ UNCHANGED <<active, savedProjects, storedItems, storedIndex>>
            /\ Stepped(k, "renameProject", "setItem", "getIndex") =>
                 /\ DeserializeProject(storedItems'[pending[k].id]) = pending[k].project[1]
                 /\ UNCHANGED <<active, savedProjects, storedIndex>>
      /\ (last'.op = "renameProject" /\ last'.did = "not-found") =>
            /\ last'.call[1].id \notin DOMAIN storedItems
            /\ UNCHANGED <<active, savedProjects, storedItems, storedIndex, scenes, assets>>
      /\ (last'.op = "renameProject" /\ last'.did = "resolved") =>
            LET call == last'.call[1]
                at == EntriesFor(savedProjects', call.id)
            IN /\ active' = IF active # <<>> /\ active[1].metadata.id = call.id
                             THEN call.project ELSE active
               /\ Cardinality(at) = 1
               /\ \A i \in at : /\ savedProjects'[i] = call.project[1].metadata
                                /\ savedProjects'[i].name = call.name
               /\ \A i \in 1..Len(savedProjects') :
                     i \notin at => \E j \in 1..Len(savedProjects) :
                                      savedProjects[j] = savedProjects'[i]
               /\ Includes(storedIndex', call.id)
               /\ UNCHANGED <<storedItems, scenes, assets>> ]_vars

\* A renameProject call has ended for a stored project that is not the active
\* one: it is listed under its new name, stamped later than it was created,
\* and the active project is another one, under its own name.
C26_Witness ==
  /\ last.op = "renameProject" /\ last.did = "resolved"
  /\ last.call[1].name = "q"
  /\ active # <<>> /\ active[1].metadata.id # last.call[1].id
  /\ active[1].metadata.name = "p"
  /\ Len(savedProjects) = 2
  /\ \E i \in 1..2 : /\ savedProjects[i].id = last.call[1].id
                      /\ savedProjects[i].name = "q"
                      /\ savedProjects[i].updatedAt.time > savedProjects[i].createdAt.time

\* C27: a closeProject call leaves no project active, no asset in the media
\* registry and no scene in the scene registry, and it issues no storage call:
\* the stored projects, the stored id index, the metadata index and the
\* storage calls under way are what they were.
C27_CloseTouchesNoStorage ==
  [][ last'.op = "closeProject" =>
        /\ active' = <<>>
        /\ assets' = <<>>
        /\ scenes' = <<>> /\ currentSceneId' = NoId
        /\ UNCHANGED <<storedItems, storedIndex, savedProjects, pending>> ]_vars

\* closeProject was called on an active project with an asset while its save
\* was under way, with a project stored and listed.
C27_Witness ==
  /\ last.op = "closeProject"
  /\ Len(pending) = 1 /\ pending[1].op = "saveCurrentProject"
  /\ pending[1].pc = "getIndex"
  /\ assetsAdded > 0
  /\ DOMAIN storedItems # {} /\ storedIndex # <<>> /\ savedProjects # <<>>

\* Whether name contains the query when case is ignored: some stretch of name
\* of the length of the query reads the same in lower case.
ContainsIgnoringCase(name, q) ==
  \E i \in 1..(Len(name) - Len(q) + 1) :
    ToLowerCase(SubSeq(name, i, i + Len(q) - 1)) = ToLowerCase(q)

\* Whether the query has nothing but spaces.
IsBlank(q) == \A i \in 1..Len(q) : SubSeq(q, i, i) = " "

\* Whether listed holds exactly the entries of saved with wanted[i] true, each
\* once.
ExactlyThose(listed, saved, wanted) ==
  /\ Len(listed) = Cardinality({ i \in 1..Len(saved) : wanted[i] })
  /\ \A i \in 1..Len(saved) : wanted[i] <=> Includes(listed, saved[i])
  /\ \A j \in 1..Len(listed) : Includes(saved, listed[j])

\* Whether listed is in the order of the key, ascending or descending.
InOrder(listed, key, ascending) ==
  \A i \in 1..(Len(listed) - 1) :
    LET a == listed[i]
        b == listed[i + 1]
        c == CASE key = "name" -> LocaleCompare(a.name, b.name)
               [] key = "duration" -> a.duration - b.duration
               [] key = "createdAt" -> a.createdAt.time - b.createdAt.time
               [] key = "updatedAt" -> a.updatedAt.time - b.updatedAt.time
    IN IF ascending THEN c <= 0 ELSE c >= 0

\* The key and the direction the eight options of the list screen name.
NamedKey(sortOption) ==
  CASE sortOption \in {"name-asc", "name-desc"} -> "name"
    [] sortOption \in {"duration-asc", "duration-desc"} -> "duration"
    [] sortOption \in {"createdAt-asc", "createdAt-desc"} -> "createdAt"
    [] sortOption \in {"updatedAt-asc", "updatedAt-desc"} -> "updatedAt"
NamedAscending(sortOption) ==
  sortOption \in {"name-asc", "duration-asc", "createdAt-asc", "updatedAt-asc"}

\* C28 as stated: the listing holds exactly the entries whose name contains
\* the query, case ignored (all when the query is empty), in the order of the
\* key and direction of the option, and by updatedAt descending for any option
\* that is none of the eight.
C28_AsStated ==
  \A searchQuery \in SearchQueries \cup OtherQueries,
     sortOption \in SortOptions \cup OtherSortOptions :
    LET listed == GetFilteredAndSortedProjects(savedProjects, searchQuery, sortOption)
    IN /\ ExactlyThose(listed, savedProjects,
                       [i \in 1..Len(savedProjects) |->
                          searchQuery = "" \/
                          ContainsIgnoringCase(savedProjects[i].name, searchQuery)])
       /\ IF sortOption \in SortOptions \ {""}
          THEN InOrder(listed, NamedKey(sortOption), NamedAscending(sortOption))
          ELSE InOrder(listed, "updatedAt", FALSE)

\* C28 for what the code does: the listing holds exactly the entries whose
\* name contains the query, case ignored, and all entries when the query is
\* empty or has nothing but spaces.  It is in the order of the key the option
\* starts with, updatedAt when that is none of the four keys, ascending when
\* "asc" follows the first dash and descending otherwise: name-asc gives
\* ascending names whatever the order of the index, no option gives updatedAt
\* descending, an unknown key with -asc gives updatedAt ascending, and a key
\* alone gives that key descending.
C28_FilteredAndSorted ==
  \A searchQuery \in SearchQueries \cup OtherQueries,
     sortOption \in SortOptions \cup OtherSortOptions :
    LET listed == GetFilteredAndSortedProjects(savedProjects, searchQuery, sortOption)
        key == CASE sortOption \in SortOptions \ {""} -> NamedKey(sortOption)
                 [] sortOption \in {"name", "name-up"} -> "name"
                 [] OTHER -> "updatedAt"
        ascending == NamedAscending(sortOption) \/ sortOption \in {"size-asc", "-asc"}
    IN /\ ExactlyThose(listed, savedProjects,
                       [i \in 1..Len(savedProjects) |->
                          IsBlank(searchQuery) \/
                          ContainsIgnoringCase(savedProjects[i].name, searchQuery)])
       /\ InOrder(listed, key, ascending)

\* The index held a q first, then Pq, then p; the query P with name-asc was
\* answered with p, then Pq.
C28_Witness ==
  /\ last.op = "getFilteredAndSortedProjects"
  /\ last.mode = "name-asc"
  /\ last.call[1].searchQuery = "P"
  /\ Len(savedProjects) = 3
  /\ savedProjects[1].name = "q" /\ savedProjects[2].name = "Pq"
  /\ savedProjects[3].name = "p"
  /\ Len(last.call[1].projects) = 2
  /\ last.call[1].projects[1] = savedProjects[3]
  /\ last.call[1].projects[2] = savedProjects[2]

\* C29: a getFilteredAndSortedProjects call, whatever its query and option,
\* leaves savedProjects with the same entries in the same order.
C29_ListingKeepsCache ==
  [][ last'.op = "getFilteredAndSortedProjects" => savedProjects' = savedProjects ]_vars

\* An index of three entries was listed without a query by name, and the
\* listing came in another order than the index, which is as it was.
C29_Witness ==
  /\ last.op = "getFilteredAndSortedProjects"
  /\ last.mode = "name-asc"
  /\ last.call[1].searchQuery = ""
  /\ Len(savedProjects) = 3
  /\ Len(last.call[1].projects) = 3
  /\ last.call[1].projects # savedProjects
  /\ savedProjects[1].name = "q" /\ savedProjects[3].name = "p"

\* The projects the program holds: the active one and those the suspended
\* calls go on with.
ProjectsHeld ==
  { active[i] : i \in 1..Len(active) } \cup
  UNION { { pending[k].project[i] : i \in 1..Len(pending[k].project) } :
          k \in 1..Len(pending) }

\* Whether the scene is the stored one read back: its dates are those the
\* texts spell, its bookmarks the stored ones or none when none are stored,
\* and the rest is as stored.
SceneReadBack(scene, stored) ==
  /\ scene.id = stored.id /\ scene.name = stored.name /\ scene.isMain = stored.isMain
  /\ scene.tracks = stored.tracks
  /\ scene.createdAt.time = stored.createdAt.iso
  /\ scene.updatedAt.time = stored.updatedAt.iso
  /\ scene.bookmarks = IF "bookmarks" \in DOMAIN stored THEN stored.bookmarks ELSE <<>>

\* C30: every project the program comes to hold is equal to the deserialization
\* of its serialization, dates by their instant; every stored scene deserializes
\* to a scene with the dates its texts spell and, when it has no bookmarks,
\* with the empty list; what setItem of saveProject stores deserializes to the
\* project saved, and loadProject makes the deserialization of what is stored
\* the active project.
C30_RoundTrip ==
  [][ /\ \A p \in ProjectsHeld' \ ProjectsHeld :
            DeserializeProject(SerializeProject(p)) = p
      /\ \A id \in DOMAIN storedItems' :
            LET json == storedItems'[id]
                project == DeserializeProject(json)
            IN (\/ last.op = "new"
                \/ id \notin DOMAIN storedItems
                \/ storedItems'[id] # storedItems[id]) =>
                 /\ Len(project.scenes) = Len(json.scenes)
                 /\ \A i \in 1..Len(json.scenes) :
                       SceneReadBack(project.scenes[i], json.scenes[i])
                 /\ SerializeProject(project).metadata = json.metadata
      /\ \A k \in 1..MaxPending :
            (\E op \in {"createNewProject", "saveCurrentProject"} :
               Stepped(k, op, "setItem", "getIndex")) =>
              DeserializeProject(storedItems'[pending[k].id]) = pending[k].project[1]
      /\ (last'.op = "loadProject" /\ last'.did = "loaded") =>
            /\ last'.call[1].id \in DOMAIN storedItems
            /\ active' = <<DeserializeProject(storedItems[last'.call[1].id])>>
    ]_vars

\* The project stored by the earlier version was loaded, given two bookmarks,
\* saved later than it was created, and loaded again: the active project has
\* the two bookmarks and the later date.
C30_Witness ==
  /\ last.op = "loadProject" /\ last.did = "loaded"
  /\ active # <<>>
  /\ active[1].metadata.id = LegacyItem.metadata.id
  /\ Len(active[1].scenes) = 1
  /\ active[1].scenes[1].bookmarks = <<1, 2>>
  /\ active[1].metadata.updatedAt.time > active[1].metadata.createdAt.time
  /\ scenes = active[1].scenes

\* C31: the elements callers insert have duration > 0, startTime >= 0 and
\* trimStart >= 0, and so has every element of every track of every scene
\* after any insertElement, deleteElements and splitElements calls.
C31_TimeRangesKept ==
  /\ \A element \in ElementInputs(EditedElementTypes) :
        element.duration > 0 /\ element.startTime >= 0 /\ element.trimStart >= 0
  /\ \A si \in 1..Len(scenes) :
        \A ti \in 1..Len(scenes[si].tracks) :
          \A ei \in 1..Len(scenes[si].tracks[ti].elements) :
            LET el == scenes[si].tracks[ti].elements[ei]
            IN el.duration > 0 /\ el.startTime >= 0 /\ el.trimStart >= 0

\* A splitElements call without retainSide has cut an element in two: a track
\* holds a right part that starts later and is shorter than what was inserted,
\* next to its left part.
C31_Witness ==
  /\ last.op = "splitElements" /\ last.did = "split"
  /\ last.mode \notin {"left", "right"}
  /\ \E p \in Positions(GetTracks), tm \in Timings :
       LET el == GetTracks[p[1]].elements[p[2]]
       IN /\ el.startTime > tm.startTime
          /\ el.duration < tm.duration
          /\ p[2] > 1
          /\ GetTracks[p[1]].elements[p[2] - 1].duration < tm.duration

\* C32: a saveCurrentProject call made while a loadProject call is under way,
\* or right after one has failed with not-found, does not hand to storage the
\* active project with an empty scene list when that project is stored with
\* scenes.
C32_SaveKeepsStoredScenes ==
  [][ (/\ last.op = "loadProject" /\ last.did \in {"fetching", "not-found"}
       /\ last'.op = "saveCurrentProject" /\ last'.did = "saving") =>
        LET call == pending'[Len(pending')]
        IN (/\ call.id \in DOMAIN storedItems
            /\ Len(DeserializeProject(storedItems[call.id]).scenes) > 0) =>
             Len(DeserializeProject(call.json[1]).scenes) > 0 ]_vars

\* C34: a manager without an active project gets one only by a
\* createNewProject call or by a loadProject call that found its project: once
\* closeProject or a deleteProjects of the active project is over, no
\* saveCurrentProject or renameProject call made earlier gives the manager an
\* active project when it comes to its end.
C34_StaysClosed ==
  [][ (active = <<>> /\ active' # <<>>) =>
        \/ last'.op = "createNewProject" /\ last'.did = "activated"
        \/ last'.op = "loadProject" /\ last'.did = "loaded" ]_vars

\* The ids of a list of scenes, in the order of the list.
SceneIdsOf(ss) == [i \in 1..Len(ss) |-> ss[i].id]

\* C33: whenever no ProjectManager call awaits storage and a project is
\* active, the scenes of the registry are the scenes of the active project,
\* id by id.
C33_RegistryHoldsActiveScenes ==
  (pending = <<>> /\ active # <<>>) =>
     SceneIdsOf(scenes) = SceneIdsOf(active[1].scenes)

\* The ids of the projects of the metadata list.
ListedIds == { savedProjects[i].id : i \in 1..Len(savedProjects) }

\* C35: a project that a completed deleteProjects call has taken off the
\* metadata list is in storage, in the index and on the list no more once the
\* last call under way has come to its end, also when that call is a
\* saveCurrentProject or renameProject call for the project made before the
\* deletion.
C35_DeletedStaysDeleted ==
  [][ (/\ Len(pending) = 1 /\ pending' = <<>>
       /\ pending[1].op \in {"saveCurrentProject", "renameProject"}
       /\ pending[1].id \notin ListedIds) =>
        /\ pending[1].id \notin DOMAIN storedItems'
        /\ ~Includes(storedIndex', pending[1].id)
        /\ pending[1].id \notin ListedIds' ]_vars

\* C36: once saveProject and deleteProject calls made for different projects
\* while others were under way have all come to their end, the index holds
\* the id of every stored project once and no other id, and
\* loadAllProjectsMetadata lists every stored project.
C36_IndexHoldsStoredIds ==
  pending = <<>> =>
    /\ \A id \in DOMAIN storedItems :
         Cardinality({ i \in 1..Len(storedIndex) : storedIndex[i] = id }) = 1
    /\ \A i \in 1..Len(storedIndex) : storedIndex[i] \in DOMAIN storedItems
    /\ LET listed == LoadAllProjectsMetadata(storedIndex, storedItems)
       IN { listed[i].id : i \in 1..Len(listed) } = DOMAIN storedItems

\* The loadProject and loadAllProjects calls under way.
LoadsPending ==
  { k \in 1..Len(pending) : pending[k].op \in {"loadProject", "loadAllProjects"} }

\* C37: isLoading is true as long as a loadProject or loadAllProjects call is
\* under way, and false once the last of them has come to its end, whether it
\* found what it loaded, found no project, or storage failed.
C37_LoadingWhileLoadsPending ==
  [][ /\ LoadsPending' # {} => isLoading'
      /\ (LoadsPending # {} /\ LoadsPending' = {}) => ~isLoading' ]_vars

=============================================================================
